---- MODULE Spec2Model ----
(***************************************************************************)
(* State-machine model of the Express backend of showersautodetail:        *)
(* routes/auth.js, routes/coupons.js, routes/bookings.js (unnamed          *)
(* part_000), routes/google-reviews.js and the /health route of server.js. *)
(*                                                                         *)
(* A request handler is an async function.  JavaScript runs it without     *)
(* interruption between two awaits, and every awaited pool.query is one    *)
(* SQL statement, atomic in the database.  A handler is therefore modelled *)
(* as one action per awaited call: the action performs the call (or lets   *)
(* it fail) and runs the handler's code up to the next await.  Requests in *)
(* flight are kept in the bag `inflight`; `last` is the response that the   *)
(* latest step sent, if it sent one.                                       *)
(***************************************************************************)
EXTENDS Integers, Sequences, FiniteSets, Bags, TLC

VARIABLES
  now,            \* the clock (NOW(), Date.now()), in hours
  ticks,          \* how often the clock has advanced (bounds the model)
  inflight,       \* bag of requests that wait on an awaited call
  last,           \* the response the latest step sent, with its request
  adminUsers,     \* table admin_users
  refreshTokens,  \* table refresh_tokens
  loggedOut,      \* history: refresh tokens for which /logout answered success
  jwtIssued,      \* history: an access token has been issued
  coupons,        \* table coupons
  bookings,       \* table bookings
  bookingAddons,  \* table booking_addons
  seq,            \* the serial sequences of coupons.id and bookings.id, and
                  \* history: the writes POST /coupons/apply has committed
  writer,         \* history: the request that wrote last to coupons or bookings
  reviewsCache,   \* table google_reviews_cache
  upstream,       \* history: number of calls made to the Google Places API
  envSet          \* process.env: .admin, ADMIN_EMAIL and ADMIN_PASSWORD are set;
                  \* .google, GOOGLE_MAPS_API_KEY and GOOGLE_PLACE_ID are set

authDb   == <<adminUsers, refreshTokens, loggedOut, jwtIssued>>
shopDb   == <<coupons, bookings, bookingAddons, seq, writer>>
reviewDb == <<reviewsCache, upstream>>
clock    == <<now, ticks>>
vars     == <<now, ticks, inflight, last, adminUsers, refreshTokens, loggedOut,
              jwtIssued, coupons, bookings, bookingAddons, seq, writer,
              reviewsCache, upstream, envSet>>

(***************************************************************************)
(* Bounds of the model.                                                    *)
(***************************************************************************)
MaxInflight == 2      \* requests in flight at the same time
MaxTokens   == 2      \* refresh tokens issued
MaxSecrets  == 2      \* distinct TOTP secrets generateSecret can return
MaxTicks    == 2      \* clock advances

NULL == 0             \* SQL NULL / JavaScript undefined in a numeric column or field

(***************************************************************************)
(* Responses.  body is the tag of the JSON body (its error string, or a    *)
(* name for the success payload), message an additional message field.     *)
(* The remaining fields record the request the response answers.           *)
(***************************************************************************)
NoMessage == "none"

\* what a thrown error carries in error.message
ErrTexts == {"ECONNREFUSED", "query timeout"}

Response(route, status, body, message, failed, info) ==
  [route |-> route, status |-> status, body |-> body, message |-> message,
   failed |-> failed,   \* an awaited call of the request threw
   info |-> info]

NoInfo == [none |-> TRUE]

\* a step that sends no response: an awaited call returned and the handler
\* waits on its next one, or the clock advanced
None == Response("none", 0, "none", NoMessage, FALSE, NoInfo)
NoResponse == last' = None

Add(r)    == inflight (+) SetToBag({r})
Remove(r) == inflight (-) SetToBag({r})
InFlight  == BagToSet(inflight)
CanStart  == BagCardinality(inflight) < MaxInflight

\* middleware/auth.js authenticateToken: a route behind it runs its handler
\* only for a request that carries a valid access token, and an access token
\* is valid only if login or refresh signed it.
AuthenticateToken(hasToken) == hasToken /\ jwtIssued

(***************************************************************************)
(* JavaScript numbers.  A number is a fraction n/d in lowest terms with    *)
(* d > 0, or one of NaN (0/0), Infinity (1/0), -Infinity (-1/0).  The      *)
(* arithmetic is IEEE 754's without its rounding error; toFixed rounds.    *)
(***************************************************************************)
RECURSIVE Gcd(_, _)
Gcd(a, b) == IF b = 0 THEN a ELSE Gcd(b, a % b)
Abs(i) == IF i < 0 THEN -i ELSE i
Sign(i) == IF i < 0 THEN -1 ELSE IF i = 0 THEN 0 ELSE 1

NaN    == [n |-> 0, d |-> 0]
PosInf == [n |-> 1, d |-> 0]
NegInf == [n |-> -1, d |-> 0]

\* the number n/d, d # 0
Frac(n, d) ==
  LET g == Gcd(Abs(n), Abs(d)) IN [n |-> (Sign(d) * n) \div g, d |-> Abs(d) \div g]
Num(i) == Frac(i, 1)

IsNaN(x)    == x.d = 0 /\ x.n = 0
IsFinite(x) == x.d # 0

FNeg(x) == [n |-> -x.n, d |-> x.d]

FAdd(x, y) ==
  IF IsNaN(x) \/ IsNaN(y) THEN NaN
  ELSE IF IsFinite(x) /\ IsFinite(y) THEN Frac(x.n * y.d + y.n * x.d, x.d * y.d)
  ELSE IF IsFinite(x) THEN y
  ELSE IF IsFinite(y) \/ x = y THEN x
  ELSE NaN

FSub(x, y) == FAdd(x, FNeg(y))

FMul(x, y) ==
  IF IsNaN(x) \/ IsNaN(y) THEN NaN
  ELSE IF IsFinite(x) /\ IsFinite(y) THEN Frac(x.n * y.n, x.d * y.d)
  ELSE IF x.n = 0 \/ y.n = 0 THEN NaN
  ELSE [n |-> Sign(x.n) * Sign(y.n), d |-> 0]

FDiv(x, y) ==
  IF IsNaN(x) \/ IsNaN(y) THEN NaN
  ELSE IF IsFinite(y) /\ y.n # 0
    THEN IF IsFinite(x) THEN Frac(x.n * y.d, x.d * y.n)
         ELSE [n |-> Sign(x.n) * Sign(y.n), d |-> 0]
  ELSE IF IsFinite(y)
    THEN IF x.n = 0 THEN NaN ELSE [n |-> Sign(x.n), d |-> 0]
  ELSE IF IsFinite(x) THEN Num(0) ELSE NaN

\* x < y; false when either is NaN
FLt(x, y) ==
  IF IsNaN(x) \/ IsNaN(y) THEN FALSE
  ELSE IF IsFinite(x) /\ IsFinite(y) THEN x.n * y.d < y.n * x.d
  ELSE IF x = y THEN FALSE
  ELSE x = NegInf \/ y = PosInf

FLeq(x, y) == ~IsNaN(x) /\ ~IsNaN(y) /\ ~FLt(y, x)

\* Math.min(x, y)
FMin(x, y) ==
  IF IsNaN(x) \/ IsNaN(y) THEN NaN ELSE IF FLt(y, x) THEN y ELSE x

\* parseFloat(x.toFixed(2)): the nearest multiple of 0.01, the larger one of
\* two equally near
ToFixed2(x) ==
  IF ~IsFinite(x) THEN x
  ELSE Frac((2 * 100 * x.n + x.d) \div (2 * x.d), 100)

\* !x for a number x: 0 and NaN are falsy
Falsy(x) == IsNaN(x) \/ (IsFinite(x) /\ x.n = 0)

(***************************************************************************)
(* routes/auth.js                                                          *)
(***************************************************************************)
ACCESS_TOKEN_EXPIRY == "15m"
REFRESH_TOKEN_EXPIRY_DAYS == 30
HoursPerDay == 24

Tokens  == 1..MaxTokens          \* values of crypto.randomBytes(64).toString('hex')
Forged  == MaxTokens + 1         \* a token value that login never generates
\* what a client can present: a token login has returned, a made-up one, or none
Presentable == {t \in Tokens : t <= Cardinality(refreshTokens)} \cup {Forged, NULL}
Secrets == 1..MaxSecrets         \* values of authenticator.generateSecret()

\* crypto.createHash('sha256').update(t).digest('hex'): injective on the
\* tokens of the model, and never the token itself
Sha256(t) == <<"sha256", t>>

\* the TOTP code an authenticator app shows for a secret
Totp(s) == <<"totp", s>>
NoCode    == <<"totp", NULL>>    \* no code in the request body
WrongCode == <<"totp", MaxSecrets + 1>>
Codes == {NoCode, WrongCode} \cup {Totp(s) : s \in Secrets}

\* authenticator.verify({token, secret}) for a secret that is not null
VerifyTotp(code, secret) == code = Totp(secret)

AdminId == 1
NewAdminRow ==
  [id |-> AdminId, totp_secret |-> NULL, totp_enabled |-> FALSE, is_active |-> TRUE]

AuthInfo(r) == [tok |-> r.tok, lo |-> r.lo, en |-> r.en, codeOk |-> r.codeOk,
                admin |-> r.admin, code |-> r.code, creds |-> r.creds]

AuthReq(route, pc, admin, tok, code, remember) ==
  [route |-> route, pc |-> pc, admin |-> admin, tok |-> tok, code |-> code,
   remember |-> remember, secret |-> NULL, lo |-> FALSE, en |-> FALSE,
   codeOk |-> FALSE,
   creds |-> TRUE]      \* login: email and password equal the configured ones

AuthRespond(r, status, body, failed) ==
  last' = Response(r.route, status, body, NoMessage, failed, AuthInfo(r))

\* a route behind authenticateToken, reached without a valid access token
Unauthorized(route) ==
  /\ last' = Response(route, 401, "Access token required", NoMessage, FALSE,
                      AuthInfo(AuthReq(route, "auth", FALSE, NULL, NoCode, FALSE)))
  /\ UNCHANGED <<inflight, authDb, shopDb, reviewDb, clock, envSet>>

\* the request goes on to its next awaited call / it has been answered
Continue(old, new) == inflight' = (inflight (-) SetToBag({old})) (+) SetToBag({new})
Await(r)  == inflight' = Add(r)
Done(r)   == inflight' = Remove(r)

\* the number of requests of a route in flight
RECURSIVE CountIn(_, _)
CountIn(rs, route) ==
  IF rs = {} THEN 0
  ELSE LET r == CHOOSE x \in rs : TRUE
       IN (IF r.route = route THEN CopiesIn(r, inflight) ELSE 0)
          + CountIn(rs \ {r}, route)
Running(route) == CountIn(InFlight, route)

\* the handler comparing the email only
LoginPasswordUnchecked(emailOk, passwordOk, remember, code, ok) ==
  LET r == [AuthReq("login", "selectUser", FALSE, NULL, code, remember)
              EXCEPT !.creds = emailOk /\ passwordOk] IN
  /\ CanStart
  /\ Cardinality(refreshTokens) + Running("login") < MaxTokens
  /\ IF ~envSet.admin
       THEN AuthRespond(r, 500, "Server configuration error", FALSE)
            /\ UNCHANGED inflight
       ELSE IF ~emailOk
         THEN AuthRespond(r, 401, "Invalid credentials", FALSE)
              /\ UNCHANGED inflight
       ELSE IF ~ok
         THEN AuthRespond(r, 500, "Login failed", TRUE) /\ UNCHANGED inflight
       ELSE IF adminUsers = {}
         THEN Await([r EXCEPT !.pc = "insertUser"]) /\ NoResponse
         ELSE LET user == CHOOSE u \in adminUsers : TRUE
                  seen == [r EXCEPT !.en = user.totp_enabled,
                                    !.codeOk = /\ user.totp_secret # NULL
                                               /\ VerifyTotp(r.code, user.totp_secret)]
              IN IF user.totp_enabled /\ user.totp_secret # NULL
                   THEN IF r.code = NoCode
                          THEN AuthRespond(seen, 200, "requiresTwoFactor", FALSE)
                               /\ UNCHANGED inflight
                          ELSE IF ~VerifyTotp(r.code, user.totp_secret)
                            THEN AuthRespond(seen, 401, "Invalid 2FA code", FALSE)
                                 /\ UNCHANGED inflight
                            ELSE Await([seen EXCEPT !.pc = "insertToken"])
                                 /\ NoResponse
                   ELSE Await([seen EXCEPT !.pc = "insertToken"]) /\ NoResponse
  /\ UNCHANGED <<authDb, shopDb, reviewDb, clock, envSet>>

\* POST /login: the environment and credential checks, the SELECT of the
\* admin row and the two-factor check
Login(emailOk, passwordOk, remember, code, ok) ==
  LET r == [AuthReq("login", "selectUser", FALSE, NULL, code, remember)
              EXCEPT !.creds = emailOk /\ passwordOk] IN
  /\ CanStart
  /\ Cardinality(refreshTokens) + Running("login") < MaxTokens
  /\ IF ~envSet.admin
       THEN AuthRespond(r, 500, "Server configuration error", FALSE)
            /\ UNCHANGED inflight
       ELSE IF ~emailOk \/ ~passwordOk
         THEN AuthRespond(r, 401, "Invalid credentials", FALSE)
              /\ UNCHANGED inflight
       ELSE IF ~ok
         THEN AuthRespond(r, 500, "Login failed", TRUE) /\ UNCHANGED inflight
       ELSE IF adminUsers = {}
         THEN Await([r EXCEPT !.pc = "insertUser"]) /\ NoResponse
         ELSE LET user == CHOOSE u \in adminUsers : TRUE
                  seen == [r EXCEPT !.en = user.totp_enabled,
                                    !.codeOk = /\ user.totp_secret # NULL
                                               /\ VerifyTotp(r.code, user.totp_secret)]
              IN IF user.totp_enabled /\ user.totp_secret # NULL
                   THEN IF r.code = NoCode
                          THEN AuthRespond(seen, 200, "requiresTwoFactor", FALSE)
                               /\ UNCHANGED inflight
                          ELSE IF ~VerifyTotp(r.code, user.totp_secret)
                            THEN AuthRespond(seen, 401, "Invalid 2FA code", FALSE)
                                 /\ UNCHANGED inflight
                            ELSE Await([seen EXCEPT !.pc = "insertToken"])
                                 /\ NoResponse
                   ELSE Await([seen EXCEPT !.pc = "insertToken"]) /\ NoResponse
  /\ UNCHANGED <<authDb, shopDb, reviewDb, clock, envSet>>

\* the INSERT that auto-creates the admin row (admin_users.email is unique)
LoginInsertUser(r, ok) ==
  /\ r.route = "login" /\ r.pc = "insertUser"
  /\ IF ok /\ adminUsers = {}
       THEN /\ adminUsers' = {NewAdminRow}
            /\ Continue(r, [r EXCEPT !.pc = "insertToken"])
            /\ NoResponse
       ELSE /\ AuthRespond(r, 500, "Login failed", TRUE)
            /\ Done(r)
            /\ UNCHANGED adminUsers
  /\ UNCHANGED <<refreshTokens, loggedOut, jwtIssued, shopDb, reviewDb, clock, envSet>>

ExpiryDays(remember) == IF remember THEN REFRESH_TOKEN_EXPIRY_DAYS ELSE 1

\* jwt.sign, the fresh refresh token and the INSERT of its hash
LoginInsertToken(r, ok) ==
  /\ r.route = "login" /\ r.pc = "insertToken"
  /\ LET token == Cardinality(refreshTokens) + 1
         row == [token_hash |-> Sha256(token), user_id |-> AdminId,
                 expires_at |-> now + ExpiryDays(r.remember) * HoursPerDay,
                 is_revoked |-> FALSE]
     IN IF ok
          THEN /\ refreshTokens' = refreshTokens \cup {row}
               /\ jwtIssued' = TRUE
               /\ AuthRespond([r EXCEPT !.tok = token], 200, "tokens", FALSE)
          ELSE /\ AuthRespond(r, 500, "Login failed", TRUE)
               /\ UNCHANGED <<refreshTokens, jwtIssued>>
  /\ Done(r)
  /\ UNCHANGED <<adminUsers, loggedOut, shopDb, reviewDb, clock, envSet>>

\* the query without its expires_at condition
RefreshRowsIgnoringExpiry(tok) ==
  {rt \in refreshTokens :
     /\ rt.token_hash = Sha256(tok)
     /\ rt.is_revoked = FALSE
     /\ \E au \in adminUsers : au.id = rt.user_id /\ au.is_active}

\* the rows of: refresh_tokens rt JOIN admin_users au ON rt.user_id = au.id
\* WHERE rt.token_hash = $1 AND rt.is_revoked = false AND rt.expires_at > NOW()
\* AND au.is_active = true
RefreshRows(tok) ==
  {rt \in refreshTokens :
     /\ rt.token_hash = Sha256(tok)
     /\ rt.is_revoked = FALSE
     /\ rt.expires_at > now
     /\ \E au \in adminUsers : au.id = rt.user_id /\ au.is_active}

\* POST /refresh
Refresh(tok, ok) ==
  LET r == [AuthReq("refresh", "select", FALSE, tok, NoCode, FALSE)
              EXCEPT !.lo = tok \in loggedOut] IN
  /\ IF tok = NULL
       THEN AuthRespond(r, 400, "Refresh token required", FALSE) /\ UNCHANGED jwtIssued
       ELSE IF ~ok
         THEN AuthRespond(r, 500, "Token refresh failed", TRUE) /\ UNCHANGED jwtIssued
       ELSE IF RefreshRows(tok) = {}
         THEN AuthRespond(r, 401, "Invalid or expired refresh token", FALSE)
              /\ UNCHANGED jwtIssued
         ELSE AuthRespond(r, 200, "accessToken", FALSE) /\ jwtIssued' = TRUE
  /\ UNCHANGED <<inflight, adminUsers, refreshTokens, loggedOut, shopDb, reviewDb,
                 clock, envSet>>

\* the UPDATE revoking every token of the user who owns the presented one
RevokeAllOfUser(tok) ==
  {IF \E own \in refreshTokens :
        own.token_hash = Sha256(tok) /\ own.user_id = rt.user_id
     THEN [rt EXCEPT !.is_revoked = TRUE] ELSE rt :
     rt \in refreshTokens}

\* UPDATE refresh_tokens SET is_revoked = true WHERE token_hash = $1
Revoke(tok) ==
  {IF rt.token_hash = Sha256(tok) THEN [rt EXCEPT !.is_revoked = TRUE] ELSE rt :
     rt \in refreshTokens}

\* POST /logout: the UPDATE inside its own try/catch, then
\* res.json({ success: true })
Logout(tok, ok) ==
  LET r == AuthReq("logout", "update", FALSE, tok, NoCode, FALSE) IN
  /\ IF tok = NULL
       THEN /\ AuthRespond(r, 200, "success", FALSE)
            /\ UNCHANGED <<refreshTokens, loggedOut>>
       ELSE /\ refreshTokens' = IF ok THEN Revoke(tok) ELSE refreshTokens
            /\ AuthRespond(r, 200, "success", ~ok)
            /\ loggedOut' = loggedOut \cup {tok}
  /\ UNCHANGED <<inflight, adminUsers, jwtIssued, shopDb, reviewDb, clock, envSet>>

AdminRows(id) == {u \in adminUsers : u.id = id}

\* GET /me
Me(hasToken, ok) ==
  LET r == AuthReq("me", "select", TRUE, NULL, NoCode, FALSE) IN
  IF ~AuthenticateToken(hasToken) THEN Unauthorized("me")
  ELSE
    /\ IF ~ok
         THEN AuthRespond(r, 500, "Failed to get user info", TRUE)
         ELSE IF {u \in AdminRows(AdminId) : u.is_active} = {}
           THEN AuthRespond(r, 404, "User not found", FALSE)
           ELSE AuthRespond(r, 200, "user", FALSE)
    /\ UNCHANGED <<inflight, authDb, shopDb, reviewDb, clock, envSet>>

\* POST /2fa/setup: SELECT totp_enabled, then generateSecret and keyuri
Setup(hasToken, ok, secret) ==
  LET r == AuthReq("2fa/setup", "select", TRUE, NULL, NoCode, FALSE) IN
  IF ~AuthenticateToken(hasToken) THEN Unauthorized("2fa/setup")
  ELSE
    /\ CanStart
    /\ IF ~ok
         THEN AuthRespond(r, 500, "Failed to setup 2FA", TRUE) /\ UNCHANGED inflight
         ELSE IF \E u \in AdminRows(AdminId) : u.totp_enabled
           THEN AuthRespond(r, 400, "2FA is already enabled", FALSE)
                /\ UNCHANGED inflight
           ELSE Await([r EXCEPT !.pc = "qr", !.secret = secret]) /\ NoResponse
    /\ UNCHANGED <<authDb, shopDb, reviewDb, clock, envSet>>

\* await QRCode.toDataURL(otpauth)
SetupQr(r, ok) ==
  /\ r.route = "2fa/setup" /\ r.pc = "qr"
  /\ IF ~ok
       THEN AuthRespond(r, 500, "Failed to setup 2FA", TRUE) /\ Done(r)
       ELSE Continue(r, [r EXCEPT !.pc = "update"]) /\ NoResponse
  /\ UNCHANGED <<authDb, shopDb, reviewDb, clock, envSet>>

\* UPDATE admin_users SET totp_secret = $1
SetupUpdate(r, ok) ==
  /\ r.route = "2fa/setup" /\ r.pc = "update"
  /\ IF ~ok
       THEN AuthRespond(r, 500, "Failed to setup 2FA", TRUE) /\ UNCHANGED adminUsers
       ELSE /\ adminUsers' = {IF u.id = AdminId THEN [u EXCEPT !.totp_secret = r.secret]
                              ELSE u : u \in adminUsers}
            /\ AuthRespond(r, 200, "secret", FALSE)
  /\ Done(r)
  /\ UNCHANGED <<refreshTokens, loggedOut, jwtIssued, shopDb, reviewDb, clock, envSet>>

\* POST /2fa/verify: SELECT totp_secret, totp_enabled, then the checks and
\* authenticator.verify
Verify(hasToken, code, ok) ==
  LET r == AuthReq("2fa/verify", "select", TRUE, NULL, code, FALSE) IN
  IF ~AuthenticateToken(hasToken) THEN Unauthorized("2fa/verify")
  ELSE
    /\ CanStart
    /\ IF code = NoCode
         THEN AuthRespond(r, 400, "Verification code required", FALSE)
              /\ UNCHANGED inflight
       ELSE IF ~ok
         THEN AuthRespond(r, 500, "Failed to verify 2FA", TRUE) /\ UNCHANGED inflight
       ELSE IF \A u \in AdminRows(AdminId) : u.totp_secret = NULL
         THEN AuthRespond(r, 400, "Please setup 2FA first", FALSE)
              /\ UNCHANGED inflight
         ELSE LET user == CHOOSE u \in AdminRows(AdminId) : TRUE IN
           IF user.totp_enabled
             THEN AuthRespond(r, 400, "2FA is already enabled", FALSE)
                  /\ UNCHANGED inflight
             ELSE IF ~VerifyTotp(code, user.totp_secret)
               THEN AuthRespond(r, 400, "Invalid verification code", FALSE)
                    /\ UNCHANGED inflight
               ELSE Await([r EXCEPT !.pc = "update", !.codeOk = TRUE])
                    /\ NoResponse
    /\ UNCHANGED <<authDb, shopDb, reviewDb, clock, envSet>>

\* UPDATE admin_users SET totp_enabled = true
VerifyUpdate(r, ok) ==
  /\ r.route = "2fa/verify" /\ r.pc = "update"
  /\ IF ~ok
       THEN AuthRespond(r, 500, "Failed to verify 2FA", TRUE) /\ UNCHANGED adminUsers
       ELSE /\ adminUsers' = {IF u.id = AdminId THEN [u EXCEPT !.totp_enabled = TRUE]
                              ELSE u : u \in adminUsers}
            /\ AuthRespond(r, 200, "2FA enabled successfully", FALSE)
  /\ Done(r)
  /\ UNCHANGED <<refreshTokens, loggedOut, jwtIssued, shopDb, reviewDb, clock, envSet>>

\* POST /2fa/disable: SELECT totp_secret, totp_enabled, then the checks and
\* authenticator.verify.  With a null secret otplib either rejects the code
\* or throws: libThrows.
Disable(hasToken, code, ok, libThrows) ==
  LET r == AuthReq("2fa/disable", "select", TRUE, NULL, code, FALSE) IN
  IF ~AuthenticateToken(hasToken) THEN Unauthorized("2fa/disable")
  ELSE
    /\ CanStart
    /\ IF code = NoCode
         THEN AuthRespond(r, 400, "Current 2FA code required", FALSE)
              /\ UNCHANGED inflight
       ELSE IF ~ok
         THEN AuthRespond(r, 500, "Failed to disable 2FA", TRUE) /\ UNCHANGED inflight
       ELSE IF \A u \in AdminRows(AdminId) : ~u.totp_enabled
         THEN AuthRespond(r, 400, "2FA is not enabled", FALSE)
              /\ UNCHANGED inflight
         ELSE LET user == CHOOSE u \in AdminRows(AdminId) : TRUE IN
           IF user.totp_secret = NULL /\ libThrows
             THEN AuthRespond(r, 500, "Failed to disable 2FA", TRUE)
                  /\ UNCHANGED inflight
             ELSE IF user.totp_secret = NULL \/ ~VerifyTotp(code, user.totp_secret)
               THEN AuthRespond(r, 400, "Invalid verification code", FALSE)
                    /\ UNCHANGED inflight
               ELSE Await([r EXCEPT !.pc = "update", !.codeOk = TRUE])
                    /\ NoResponse
    /\ UNCHANGED <<authDb, shopDb, reviewDb, clock, envSet>>

\* UPDATE admin_users SET totp_enabled = false, totp_secret = NULL
DisableUpdate(r, ok) ==
  /\ r.route = "2fa/disable" /\ r.pc = "update"
  /\ IF ~ok
       THEN AuthRespond(r, 500, "Failed to disable 2FA", TRUE) /\ UNCHANGED adminUsers
       ELSE /\ adminUsers' = {IF u.id = AdminId
                                THEN [u EXCEPT !.totp_enabled = FALSE,
                                               !.totp_secret = NULL]
                                ELSE u : u \in adminUsers}
            /\ AuthRespond(r, 200, "2FA disabled successfully", FALSE)
  /\ Done(r)
  /\ UNCHANGED <<refreshTokens, loggedOut, jwtIssued, shopDb, reviewDb, clock, envSet>>

\* GET /2fa/status
Status(hasToken, ok) ==
  LET r == AuthReq("2fa/status", "select", TRUE, NULL, NoCode, FALSE) IN
  IF ~AuthenticateToken(hasToken) THEN Unauthorized("2fa/status")
  ELSE
    /\ IF ~ok
         THEN AuthRespond(r, 500, "Failed to get 2FA status", TRUE)
         ELSE AuthRespond([r EXCEPT !.en = \E u \in AdminRows(AdminId) : u.totp_enabled],
                          200, "enabled", FALSE)
    /\ UNCHANGED <<inflight, authDb, shopDb, reviewDb, clock, envSet>>

(***************************************************************************)
(* routes/coupons.js                                                       *)
(***************************************************************************)
MaxCoupons  == 2      \* coupons created
MaxBookings == 2      \* bookings created
ShopBookings == 1     \* bookings that exist when coupons are applied
MaxApplies  == 2      \* POST /apply requests that get past the coupon lookup
MaxShopTicks == 1     \* clock advances while coupons are in use

NoText == ""          \* a missing or empty string in a request body

\* String.prototype.toUpperCase on the coupon codes of the model
ToUpperCase(c) ==
  CASE c = "save" -> "SAVE"
    [] c = "vip"  -> "VIP"
    [] OTHER      -> c

NoCoupon == [id |-> NULL]

ShopReq(route, pc, admin, code, bookingId) ==
  [route |-> route, pc |-> pc, admin |-> admin, code |-> code,
   bookingId |-> bookingId, subtotal |-> NaN, coupon |-> NoCoupon,
   oldTotal |-> NaN, discount |-> NaN, newTotal |-> NaN, newDeposit |-> NaN]

ShopRespond(r, status, body, failed) ==
  last' = Response(r.route, status, body, NoMessage, failed, r)

\* a statement of `route` changed rows of coupons or bookings
Wrote(route, kind, admin) ==
  writer' = [route |-> route, kind |-> kind, admin |-> admin]

\* the handler without its check of a percent value
CouponCreateUnbounded(hasToken, code, discountType, discountValue, maxUses, expiresAt, ok) ==
  LET row == [id |-> seq.coupon + 1, code |-> ToUpperCase(code),
              discount_type |-> discountType, discount_value |-> discountValue,
              max_uses |-> maxUses, expires_at |-> expiresAt,
              used_count |-> 0, is_active |-> TRUE]
      r == [ShopReq("coupons/create", "insert", TRUE, code, NULL)
              EXCEPT !.coupon = row]
      same == UNCHANGED <<coupons, seq, writer>>
  IN
  IF ~AuthenticateToken(hasToken) THEN Unauthorized("coupons/create")
  ELSE
    /\ seq.coupon < MaxCoupons
    /\ IF code = NoText \/ discountType = NoText \/ Falsy(discountValue)
         THEN ShopRespond(r, 400, "Code, discount type, and value required", FALSE)
              /\ same
       ELSE IF discountType \notin {"percent", "fixed"}
         THEN ShopRespond(r, 400, "Discount type must be percent or fixed", FALSE)
              /\ same
       ELSE IF ~ok
         THEN ShopRespond(r, 500, "Failed to create coupon", TRUE) /\ same
       ELSE IF \E c \in coupons : c.code = row.code       \* error.code === '23505'
         THEN ShopRespond(r, 400, "Coupon code already exists", FALSE) /\ same
         ELSE /\ coupons' = coupons \cup {row}
              /\ seq' = [seq EXCEPT !.coupon = @ + 1]
              /\ Wrote(r.route, "insert", TRUE)
              /\ ShopRespond(r, 201, "coupon", FALSE)
    /\ UNCHANGED <<inflight, authDb, bookings, bookingAddons, reviewDb, clock, envSet>>

\* POST / (admin): create a coupon; the response records the row the body
\* asks for
CouponCreate(hasToken, code, discountType, discountValue, maxUses, expiresAt, ok) ==
  LET row == [id |-> seq.coupon + 1, code |-> ToUpperCase(code),
              discount_type |-> discountType, discount_value |-> discountValue,
              max_uses |-> maxUses, expires_at |-> expiresAt,
              used_count |-> 0, is_active |-> TRUE]
      r == [ShopReq("coupons/create", "insert", TRUE, code, NULL)
              EXCEPT !.coupon = row]
      same == UNCHANGED <<coupons, seq, writer>>
  IN
  IF ~AuthenticateToken(hasToken) THEN Unauthorized("coupons/create")
  ELSE
    /\ seq.coupon < MaxCoupons
    /\ IF code = NoText \/ discountType = NoText \/ Falsy(discountValue)
         THEN ShopRespond(r, 400, "Code, discount type, and value required", FALSE)
              /\ same
       ELSE IF discountType \notin {"percent", "fixed"}
         THEN ShopRespond(r, 400, "Discount type must be percent or fixed", FALSE)
              /\ same
       ELSE IF /\ discountType = "percent"
               /\ (FLt(discountValue, Num(0)) \/ FLt(Num(100), discountValue))
         THEN ShopRespond(r, 400, "Percent discount must be between 0 and 100", FALSE)
              /\ same
       ELSE IF ~ok
         THEN ShopRespond(r, 500, "Failed to create coupon", TRUE) /\ same
       ELSE IF \E c \in coupons : c.code = row.code       \* error.code === '23505'
         THEN ShopRespond(r, 400, "Coupon code already exists", FALSE) /\ same
         ELSE /\ coupons' = coupons \cup {row}
              /\ seq' = [seq EXCEPT !.coupon = @ + 1]
              /\ Wrote(r.route, "insert", TRUE)
              /\ ShopRespond(r, 201, "coupon", FALSE)
    /\ UNCHANGED <<inflight, authDb, bookings, bookingAddons, reviewDb, clock, envSet>>

\* GET / (admin): list the coupons
CouponList(hasToken, ok) ==
  LET r == ShopReq("coupons/list", "select", TRUE, NoText, NULL) IN
  IF ~AuthenticateToken(hasToken) THEN Unauthorized("coupons/list")
  ELSE
    /\ IF ok THEN ShopRespond(r, 200, "coupons", FALSE)
             ELSE ShopRespond(r, 500, "Failed to fetch coupons", TRUE)
    /\ UNCHANGED <<inflight, authDb, shopDb, reviewDb, clock, envSet>>

\* the UPDATE with SET is_active = false in place of NOT is_active
CouponToggleDeactivating(hasToken, id, ok) ==
  LET r == [ShopReq("coupons/toggle", "update", TRUE, NoText, NULL)
              EXCEPT !.coupon = [id |-> id]]
      same == UNCHANGED <<coupons, writer>>
  IN
  IF ~AuthenticateToken(hasToken) THEN Unauthorized("coupons/toggle")
  ELSE
    /\ IF ~ok
         THEN ShopRespond(r, 500, "Failed to toggle coupon", TRUE) /\ same
       ELSE IF \A c \in coupons : c.id # id
         THEN ShopRespond(r, 404, "Coupon not found", FALSE) /\ same
         ELSE /\ coupons' = {IF c.id = id THEN [c EXCEPT !.is_active = FALSE] ELSE c :
                             c \in coupons}
              /\ Wrote(r.route, "update", TRUE)
              /\ ShopRespond(r, 200, "coupon", FALSE)
    /\ UNCHANGED <<inflight, authDb, bookings, bookingAddons, seq, reviewDb, clock,
                   envSet>>

\* PATCH /:id/toggle (admin): UPDATE coupons SET is_active = NOT is_active
\* WHERE id = $1; the response records the id of the request
CouponToggle(hasToken, id, ok) ==
  LET r == [ShopReq("coupons/toggle", "update", TRUE, NoText, NULL)
              EXCEPT !.coupon = [id |-> id]]
      same == UNCHANGED <<coupons, writer>>
  IN
  IF ~AuthenticateToken(hasToken) THEN Unauthorized("coupons/toggle")
  ELSE
    /\ IF ~ok
         THEN ShopRespond(r, 500, "Failed to toggle coupon", TRUE) /\ same
       ELSE IF \A c \in coupons : c.id # id
         THEN ShopRespond(r, 404, "Coupon not found", FALSE) /\ same
         ELSE /\ coupons' = {IF c.id = id THEN [c EXCEPT !.is_active = ~@] ELSE c :
                             c \in coupons}
              /\ Wrote(r.route, "update", TRUE)
              /\ ShopRespond(r, 200, "coupon", FALSE)
    /\ UNCHANGED <<inflight, authDb, bookings, bookingAddons, seq, reviewDb, clock,
                   envSet>>

\* DELETE /:id (admin)
CouponDelete(hasToken, id, ok) ==
  LET r == ShopReq("coupons/delete", "delete", TRUE, NoText, NULL)
      same == UNCHANGED <<coupons, writer>>
  IN
  IF ~AuthenticateToken(hasToken) THEN Unauthorized("coupons/delete")
  ELSE
    /\ IF ~ok
         THEN ShopRespond(r, 500, "Failed to delete coupon", TRUE) /\ same
       ELSE IF \A c \in coupons : c.id # id
         THEN ShopRespond(r, 404, "Coupon not found", FALSE) /\ same
         ELSE /\ coupons' = {c \in coupons : c.id # id}
              /\ Wrote(r.route, "delete", TRUE)
              /\ ShopRespond(r, 200, "deleted", FALSE)
    /\ UNCHANGED <<inflight, authDb, bookings, bookingAddons, seq, reviewDb, clock,
                   envSet>>

\* the lookup without its expires_at condition
SelectCouponIgnoringExpiry(code) ==
  {c \in coupons :
     /\ c.code = ToUpperCase(code)
     /\ c.is_active = TRUE
     /\ (c.max_uses = NULL \/ c.used_count < c.max_uses)}

\* SELECT * FROM coupons WHERE code = $1 AND is_active = true
\* AND (expires_at IS NULL OR expires_at > NOW())
\* AND (max_uses IS NULL OR used_count < max_uses), with $1 = code.toUpperCase()
SelectCoupon(code) ==
  {c \in coupons :
     /\ c.code = ToUpperCase(code)
     /\ c.is_active = TRUE
     /\ (c.expires_at = NULL \/ c.expires_at > now)
     /\ (c.max_uses = NULL \/ c.used_count < c.max_uses)}

\* the percent or fixed discount of a coupon on an amount, capped at the amount
Discount(coupon, amount) ==
  LET discount == IF coupon.discount_type = "percent"
                    THEN FDiv(FMul(amount, coupon.discount_value), Num(100))
                    ELSE coupon.discount_value
  IN FMin(discount, amount)

\* a validate that counts a use of the coupon it accepts
CouponValidateCounting(code, subtotal, ok) ==
  LET r == [ShopReq("coupons/validate", "selectCoupon", FALSE, code, NULL)
              EXCEPT !.subtotal = subtotal] IN
  /\ IF code = NoText
       THEN ShopRespond(r, 400, "Coupon code required", FALSE) /\ UNCHANGED coupons
     ELSE IF ~ok
       THEN ShopRespond(r, 500, "Failed to validate coupon", TRUE) /\ UNCHANGED coupons
     ELSE IF SelectCoupon(code) = {}
       THEN ShopRespond(r, 404, "Invalid or expired coupon code", FALSE)
            /\ UNCHANGED coupons
       ELSE LET coupon == CHOOSE c \in SelectCoupon(code) : TRUE IN
            /\ ShopRespond([r EXCEPT !.coupon = coupon,
                                     !.discount = ToFixed2(Discount(coupon, subtotal))],
                           200, "valid", FALSE)
            /\ coupons' = {IF c.id = coupon.id THEN [c EXCEPT !.used_count = @ + 1]
                           ELSE c : c \in coupons}
  /\ UNCHANGED <<inflight, authDb, bookings, bookingAddons, seq, writer, reviewDb,
                 clock, envSet>>

\* POST /validate (public); subtotal is parseFloat(req.body.subtotal)
CouponValidate(code, subtotal, ok) ==
  LET r == [ShopReq("coupons/validate", "selectCoupon", FALSE, code, NULL)
              EXCEPT !.subtotal = subtotal] IN
  /\ IF code = NoText
       THEN ShopRespond(r, 400, "Coupon code required", FALSE)
     ELSE IF ~ok
       THEN ShopRespond(r, 500, "Failed to validate coupon", TRUE)
     ELSE IF SelectCoupon(code) = {}
       THEN ShopRespond(r, 404, "Invalid or expired coupon code", FALSE)
       ELSE LET coupon == CHOOSE c \in SelectCoupon(code) : TRUE IN
            ShopRespond([r EXCEPT !.coupon = coupon,
                                  !.discount = ToFixed2(Discount(coupon, subtotal))],
                        200, "valid", FALSE)
  /\ UNCHANGED <<inflight, authDb, shopDb, reviewDb, clock, envSet>>

\* POST /apply (no middleware, the request carries no access token): the
\* checks of the body and the coupon SELECT
Apply(code, bookingId, ok) ==
  LET r == ShopReq("coupons/apply", "selectCoupon", FALSE, code, bookingId) IN
  /\ CanStart
  /\ seq.booked + Running("coupons/apply") < MaxApplies
  /\ IF code = NoText \/ bookingId = NULL
       THEN ShopRespond(r, 400, "Coupon code and booking ID required", FALSE)
            /\ UNCHANGED inflight
     ELSE IF ~ok
       THEN ShopRespond(r, 500, "Failed to apply coupon", TRUE) /\ UNCHANGED inflight
     ELSE IF SelectCoupon(code) = {}
       THEN ShopRespond(r, 404, "Invalid or expired coupon code", FALSE)
            /\ UNCHANGED inflight
       ELSE Await([r EXCEPT !.pc = "selectBooking",
                            !.coupon = CHOOSE c \in SelectCoupon(code) : TRUE])
            /\ NoResponse
  /\ UNCHANGED <<authDb, shopDb, reviewDb, clock, envSet>>

\* the step without its test of rows.length: reading total_amount of the
\* missing row throws a TypeError, which the catch answers
ApplySelectBookingUnguarded(r, ok) ==
  /\ r.route = "coupons/apply" /\ r.pc = "selectBooking"
  /\ IF ~ok
       THEN ShopRespond(r, 500, "Failed to apply coupon", TRUE) /\ Done(r)
     ELSE IF \A b \in bookings : b.id # r.bookingId
       THEN ShopRespond(r, 500, "Failed to apply coupon", FALSE) /\ Done(r)
       ELSE LET booking == CHOOSE b \in bookings : b.id = r.bookingId
                discount == Discount(r.coupon, booking.total_amount)
                depositPercentage == FDiv(booking.deposit_amount, booking.total_amount)
                newTotal == FSub(booking.total_amount, discount)
                newDeposit == FMul(newTotal, depositPercentage)
            IN Continue(r, [r EXCEPT !.pc = "updateBooking",
                                     !.oldTotal = booking.total_amount,
                                     !.discount = discount,
                                     !.newTotal = newTotal,
                                     !.newDeposit = newDeposit])
               /\ NoResponse
  /\ UNCHANGED <<authDb, shopDb, reviewDb, clock, envSet>>

\* SELECT total_amount, deposit_amount FROM bookings WHERE id = $1, then the
\* discount, the new total and the new deposit
ApplySelectBooking(r, ok) ==
  /\ r.route = "coupons/apply" /\ r.pc = "selectBooking"
  /\ IF ~ok
       THEN ShopRespond(r, 500, "Failed to apply coupon", TRUE) /\ Done(r)
     ELSE IF \A b \in bookings : b.id # r.bookingId
       THEN ShopRespond(r, 404, "Booking not found", FALSE) /\ Done(r)
       ELSE LET booking == CHOOSE b \in bookings : b.id = r.bookingId
                discount == Discount(r.coupon, booking.total_amount)
                depositPercentage == FDiv(booking.deposit_amount, booking.total_amount)
                newTotal == FSub(booking.total_amount, discount)
                newDeposit == FMul(newTotal, depositPercentage)
            IN Continue(r, [r EXCEPT !.pc = "updateBooking",
                                     !.oldTotal = booking.total_amount,
                                     !.discount = discount,
                                     !.newTotal = newTotal,
                                     !.newDeposit = newDeposit])
               /\ NoResponse
  /\ UNCHANGED <<authDb, shopDb, reviewDb, clock, envSet>>

\* the two writes in the other order: the increment of used_count first
ApplyCountFirst(r, ok) ==
  /\ r.route = "coupons/apply" /\ r.pc = "updateBooking"
  /\ IF ~ok
       THEN /\ ShopRespond(r, 500, "Failed to apply coupon", TRUE) /\ Done(r)
            /\ UNCHANGED <<coupons, seq, writer>>
       ELSE /\ coupons' = {IF c.id = r.coupon.id THEN [c EXCEPT !.used_count = @ + 1]
                           ELSE c : c \in coupons}
            /\ seq' = [seq EXCEPT !.counted = @ + 1]
            /\ IF coupons' # coupons THEN Wrote(r.route, "update", r.admin)
                                     ELSE UNCHANGED writer
            /\ Continue(r, [r EXCEPT !.pc = "updateCoupon"])
            /\ NoResponse
  /\ UNCHANGED <<authDb, bookings, bookingAddons, reviewDb, clock, envSet>>

\* UPDATE bookings SET coupon_code, coupon_discount, total_amount,
\* deposit_amount WHERE id = $5
ApplyUpdateBooking(r, ok) ==
  /\ r.route = "coupons/apply" /\ r.pc = "updateBooking"
  /\ IF ~ok
       THEN /\ ShopRespond(r, 500, "Failed to apply coupon", TRUE) /\ Done(r)
            /\ UNCHANGED <<bookings, seq, writer>>
       ELSE /\ bookings' = {IF b.id = r.bookingId
                              THEN [b EXCEPT !.coupon_code = r.coupon.code,
                                             !.coupon_discount = r.discount,
                                             !.total_amount = r.newTotal,
                                             !.deposit_amount = r.newDeposit]
                              ELSE b : b \in bookings}
            /\ seq' = [seq EXCEPT !.booked = @ + 1]
            /\ IF bookings' # bookings THEN Wrote(r.route, "update", r.admin)
                                       ELSE UNCHANGED writer
            /\ Continue(r, [r EXCEPT !.pc = "updateCoupon"])
            /\ NoResponse
  /\ UNCHANGED <<authDb, coupons, bookingAddons, reviewDb, clock, envSet>>

\* UPDATE coupons SET used_count = used_count + 1 WHERE id = $1, then the
\* response
ApplyUpdateCoupon(r, ok) ==
  /\ r.route = "coupons/apply" /\ r.pc = "updateCoupon"
  /\ IF ~ok
       THEN /\ ShopRespond(r, 500, "Failed to apply coupon", TRUE)
            /\ UNCHANGED <<coupons, seq, writer>>
       ELSE /\ coupons' = {IF c.id = r.coupon.id THEN [c EXCEPT !.used_count = @ + 1]
                           ELSE c : c \in coupons}
            /\ seq' = [seq EXCEPT !.counted = @ + 1]
            /\ IF coupons' # coupons THEN Wrote(r.route, "update", r.admin)
                                     ELSE UNCHANGED writer
            /\ ShopRespond(r, 200, "applied", FALSE)
  /\ Done(r)
  /\ UNCHANGED <<authDb, bookings, bookingAddons, reviewDb, clock, envSet>>

(***************************************************************************)
(* routes/bookings.js (src/unnamed/part_000)                               *)
(***************************************************************************)
MaxPayTokens == 2     \* distinct values of generatePaymentToken()

SqlNull     == [null |-> TRUE]    \* NULL in a numeric column
SqlNullText == "<null>"           \* NULL in a text column

\* the rows of services, packages, addons and settings; no route of the
\* model writes them
services ==
  {[id |-> 1, name |-> "Full Detail", sedan_price |-> Num(100),
    suv_price |-> Num(150), truck_price |-> Num(200)]}
packages ==
  {[id |-> 1, name |-> "Basic", base_price |-> Num(80),
    vehicle_multipliers |-> [sedan |-> Num(1), suv |-> Frac(3, 2)]]}
addons ==
  {[id |-> 1, name |-> "Wax", sedan_price |-> Num(10), suv_price |-> Num(15),
    commercial_price |-> Num(20), is_active |-> TRUE],
   [id |-> 2, name |-> "Pet hair", sedan_price |-> Num(30), suv_price |-> Num(35),
    commercial_price |-> Num(40), is_active |-> FALSE]}
settings == {[key |-> "deposit_percentage", value |-> Frac(1, 4)]}

\* parseFloat(process.env.DEPOSIT_PERCENTAGE || 0.25)
DefaultDepositPercentage == Frac(25, 100)

\* String.prototype.toLowerCase on the vehicle types of the model
ToLowerCase(v) ==
  CASE v = "SUV"   -> "suv"
    [] v = "Sedan" -> "sedan"
    [] OTHER       -> v

\* generatePaymentToken(): crypto.randomBytes(6).toString('hex')
PayTokens == 1..MaxPayTokens
generatePaymentToken == PayTokens

BookingReq(vehicleType, serviceId, packageId, addonIds) ==
  [route |-> "bookings/create", pc |-> "select", admin |-> FALSE,
   vehicleType |-> vehicleType, serviceId |-> serviceId, packageId |-> packageId,
   addonIds |-> addonIds, serviceName |-> NoText, totalAmount |-> Num(0),
   addonDetails |-> {}, depositAmount |-> Num(0), paymentToken |-> NULL,
   bookingId |-> NULL]

BookingRespond(r, status, body, failed) ==
  last' = Response(r.route, status, body, NoMessage, failed, r)

\* the price of a service for a vehicle type (commercial uses truck_price)
ServicePrice(service, vehicleType) ==
  LET vehicle == ToLowerCase(vehicleType) IN
  IF vehicle = "sedan" THEN service.sedan_price
  ELSE IF vehicle = "suv" THEN service.suv_price
  ELSE service.truck_price

\* base_price * (vehicle_multipliers[vehicleType.toLowerCase()] || 1.0)
PackagePrice(package, vehicleType) ==
  LET vehicle == ToLowerCase(vehicleType)
      multiplier == IF vehicle \in DOMAIN package.vehicle_multipliers
                       /\ ~Falsy(package.vehicle_multipliers[vehicle])
                      THEN package.vehicle_multipliers[vehicle] ELSE Num(1)
  IN FMul(package.base_price, multiplier)

\* the price column of addons for a vehicle type
AddonPrice(addon, vehicleType) ==
  LET vehicle == ToLowerCase(vehicleType) IN
  IF vehicle = "commercial" THEN addon.commercial_price
  ELSE IF vehicle = "suv" THEN addon.suv_price
  ELSE addon.sedan_price

Range(f) == {f[i] : i \in DOMAIN f}

\* the add-on query without its is_active condition
SelectAddonsInactiveToo(addonIds, vehicleType) ==
  {[id |-> a.id, name |-> a.name, price |-> AddonPrice(a, vehicleType)] :
     a \in {x \in addons : x.id \in Range(addonIds)}}

\* SELECT id, name, <price column> FROM addons WHERE id IN (...) AND is_active
SelectAddons(addonIds, vehicleType) ==
  {[id |-> a.id, name |-> a.name, price |-> AddonPrice(a, vehicleType)] :
     a \in {x \in addons : x.id \in Range(addonIds) /\ x.is_active}}

RECURSIVE SumPrices(_)
SumPrices(details) ==
  IF details = {} THEN Num(0)
  ELSE LET a == CHOOSE x \in details : TRUE
       IN FAdd(a.price, SumPrices(details \ {a}))

\* after the price lookup: the add-on query if add-ons were asked for
AfterPrice(r) ==
  [r EXCEPT !.pc = IF Len(r.addonIds) > 0 THEN "selectAddons" ELSE "selectSettings"]

\* POST / (public): the price of the service or the package
BookingCreate(vehicleType, serviceId, packageId, addonIds, ok) ==
  LET r == BookingReq(vehicleType, serviceId, packageId, addonIds) IN
  /\ CanStart
  /\ seq.booking + Running("bookings/create") < MaxBookings
  /\ IF serviceId # NULL
       THEN IF ~ok
              THEN BookingRespond(r, 500, "Failed to create booking", TRUE)
                   /\ UNCHANGED inflight
            ELSE IF \A x \in services : x.id # serviceId
              THEN BookingRespond(r, 404, "Service not found", FALSE)
                   /\ UNCHANGED inflight
              ELSE LET service == CHOOSE x \in services : x.id = serviceId IN
                   Await(AfterPrice([r EXCEPT
                           !.serviceName = service.name,
                           !.totalAmount = ServicePrice(service, vehicleType)]))
                   /\ NoResponse
     ELSE IF packageId # NULL
       THEN IF ~ok
              THEN BookingRespond(r, 500, "Failed to create booking", TRUE)
                   /\ UNCHANGED inflight
            ELSE IF \A x \in packages : x.id # packageId
              THEN BookingRespond(r, 404, "Package not found", FALSE)
                   /\ UNCHANGED inflight
              ELSE LET package == CHOOSE x \in packages : x.id = packageId IN
                   Await(AfterPrice([r EXCEPT
                           !.serviceName = package.name,
                           !.totalAmount = PackagePrice(package, vehicleType)]))
                   /\ NoResponse
       ELSE BookingRespond(r, 400, "Service or package ID required", FALSE)
            /\ UNCHANGED inflight
  /\ UNCHANGED <<authDb, shopDb, reviewDb, clock, envSet>>

\* the add-on query; totalAmount += addonTotal
BookingSelectAddons(r, ok) ==
  /\ r.route = "bookings/create" /\ r.pc = "selectAddons"
  /\ IF ~ok
       THEN BookingRespond(r, 500, "Failed to create booking", TRUE) /\ Done(r)
       ELSE LET addonDetails == SelectAddons(r.addonIds, r.vehicleType) IN
            Continue(r, [r EXCEPT !.pc = "selectSettings",
                                  !.addonDetails = addonDetails,
                                  !.totalAmount = FAdd(@, SumPrices(addonDetails))])
            /\ NoResponse
  /\ UNCHANGED <<authDb, shopDb, reviewDb, clock, envSet>>

\* SELECT value FROM settings WHERE key = 'deposit_percentage', the deposit
\* and the payment token
BookingSelectSettings(r, ok, token) ==
  /\ r.route = "bookings/create" /\ r.pc = "selectSettings"
  /\ IF ~ok
       THEN BookingRespond(r, 500, "Failed to create booking", TRUE) /\ Done(r)
       ELSE LET rows == {x \in settings : x.key = "deposit_percentage"}
                depositPercentage ==
                  IF rows # {} THEN (CHOOSE x \in rows : TRUE).value
                  ELSE DefaultDepositPercentage
            IN Continue(r, [r EXCEPT !.pc = "insert",
                                     !.depositAmount = FMul(r.totalAmount, depositPercentage),
                                     !.paymentToken = token])
               /\ NoResponse
  /\ UNCHANGED <<authDb, shopDb, reviewDb, clock, envSet>>

\* INSERT INTO bookings ... RETURNING *
BookingInsert(r, ok) ==
  /\ r.route = "bookings/create" /\ r.pc = "insert"
  /\ IF ~ok
       THEN /\ BookingRespond(r, 500, "Failed to create booking", TRUE) /\ Done(r)
            /\ UNCHANGED <<bookings, seq, writer>>
       ELSE LET booking ==
                  [id |-> seq.booking + 1, vehicle_type |-> r.vehicleType,
                   package_id |-> IF r.packageId = NULL THEN NULL ELSE r.packageId,
                   service_id |-> IF r.serviceId = NULL THEN NULL ELSE r.serviceId,
                   total_amount |-> r.totalAmount, deposit_amount |-> r.depositAmount,
                   status |-> "pending", payment_token |-> r.paymentToken,
                   coupon_code |-> SqlNullText, coupon_discount |-> SqlNull,
                   deposit_paid |-> FALSE, updated_at |-> now]
            IN /\ bookings' = bookings \cup {booking}
               /\ seq' = [seq EXCEPT !.booking = @ + 1]
               /\ Wrote(r.route, "insert", FALSE)
               /\ Continue(r, [r EXCEPT !.bookingId = booking.id,
                                        !.pc = IF r.addonDetails # {}
                                                 THEN "insertAddons" ELSE "notify"])
               /\ NoResponse
  /\ UNCHANGED <<authDb, coupons, bookingAddons, reviewDb, clock, envSet>>

\* await Promise.all(addonInserts): the inserts in `done` succeed; the
\* promise rejects when one of them fails
BookingInsertAddons(r, done) ==
  /\ r.route = "bookings/create" /\ r.pc = "insertAddons"
  /\ done \subseteq r.addonDetails
  /\ bookingAddons' = bookingAddons \cup
       {[booking_id |-> r.bookingId, addon_id |-> a.id, price_charged |-> a.price] :
          a \in done}
  /\ IF done = r.addonDetails
       THEN Continue(r, [r EXCEPT !.pc = "notify"]) /\ NoResponse
       ELSE BookingRespond(r, 500, "Failed to create booking", TRUE) /\ Done(r)
  /\ UNCHANGED <<authDb, coupons, bookings, seq, writer, reviewDb, clock, envSet>>

\* the notification step with a recovery the handler does not have: the row
\* of the request is deleted when the notification fails
BookingNotifyWithRollback(r, ok) ==
  /\ r.route = "bookings/create" /\ r.pc = "notify"
  /\ IF ok THEN BookingRespond(r, 201, "booking", FALSE) /\ UNCHANGED bookings
           ELSE /\ BookingRespond(r, 500, "Failed to create booking", TRUE)
                /\ bookings' = {b \in bookings : b.id # r.bookingId}
  /\ Done(r)
  /\ UNCHANGED <<authDb, coupons, bookingAddons, seq, writer, reviewDb, clock, envSet>>

\* await sendNotification(...), then the payment link and the 201 response
BookingNotify(r, ok) ==
  /\ r.route = "bookings/create" /\ r.pc = "notify"
  /\ IF ok THEN BookingRespond(r, 201, "booking", FALSE)
           ELSE BookingRespond(r, 500, "Failed to create booking", TRUE)
  /\ Done(r)
  /\ UNCHANGED <<authDb, shopDb, reviewDb, clock, envSet>>

\* GET /:id (idParamValidation only)
BookingGet(hasToken, id, ok) ==
  LET r == [route |-> "bookings/get", pc |-> "select",
            admin |-> AuthenticateToken(hasToken), bookingId |-> id,
            row |-> SqlNull] IN
  /\ IF ~ok
       THEN last' = Response(r.route, 500, "Failed to fetch booking", NoMessage, TRUE, r)
     ELSE IF \A b \in bookings : b.id # id
       THEN last' = Response(r.route, 404, "Booking not found", NoMessage, FALSE, r)
       ELSE last' = Response(r.route, 200, "booking", NoMessage, FALSE,
                             [r EXCEPT !.row = CHOOSE b \in bookings : b.id = id])
  /\ UNCHANGED <<inflight, authDb, shopDb, reviewDb, clock, envSet>>

\* the limited info GET /:id/payment-info returns; serviceName is
\* COALESCE(s.name, p.name) of the joined services and packages rows
PaymentSummary(b) ==
  [id |-> b.id, vehicleType |-> b.vehicle_type,
   serviceName |->
     IF \E s \in services : s.id = b.service_id
       THEN (CHOOSE s \in services : s.id = b.service_id).name
     ELSE IF \E p \in packages : p.id = b.package_id
       THEN (CHOOSE p \in packages : p.id = b.package_id).name
     ELSE SqlNullText,
   totalAmount |-> b.total_amount, depositAmount |-> b.deposit_amount,
   depositPaid |-> b.deposit_paid]

ForgedPayToken == MaxPayTokens + 1  \* a value generatePaymentToken never returned

\* a request for /:id/payment-info; token is NULL when the query string has
\* no token or an empty one
PaymentReq(id, token) ==
  [route |-> "bookings/payment-info", pc |-> "select", admin |-> FALSE,
   bookingId |-> id, token |-> token, summary |-> SqlNull]

\* the handler with the token looked for in the whole table instead of in
\* the row of booking :id
PaymentInfoAnyBooking(id, token, ok) ==
  LET r == PaymentReq(id, token) IN
  /\ IF token = NULL
       THEN last' = Response(r.route, 400, "Payment token required", NoMessage, FALSE, r)
     ELSE IF ~ok
       THEN last' = Response(r.route, 500, "Failed to fetch payment info", NoMessage,
                             TRUE, r)
     ELSE IF \A b \in bookings : b.id # id
       THEN last' = Response(r.route, 404, "Booking not found", NoMessage, FALSE, r)
       ELSE LET booking == CHOOSE b \in bookings : b.id = id IN
            IF \A b \in bookings : b.payment_token # token
              THEN last' = Response(r.route, 404, "Invalid payment link", NoMessage,
                                    FALSE, r)
              ELSE last' = Response(r.route, 200, "summary", NoMessage, FALSE,
                                    [r EXCEPT !.summary = PaymentSummary(booking)])
  /\ UNCHANGED <<inflight, authDb, shopDb, reviewDb, clock, envSet>>

\* GET /:id/payment-info (idParamValidation only): the token of the query
\* string against the payment_token of booking :id
PaymentInfo(id, token, ok) ==
  LET r == PaymentReq(id, token) IN
  /\ IF token = NULL
       THEN last' = Response(r.route, 400, "Payment token required", NoMessage, FALSE, r)
     ELSE IF ~ok
       THEN last' = Response(r.route, 500, "Failed to fetch payment info", NoMessage,
                             TRUE, r)
     ELSE IF \A b \in bookings : b.id # id
       THEN last' = Response(r.route, 404, "Booking not found", NoMessage, FALSE, r)
       ELSE LET booking == CHOOSE b \in bookings : b.id = id IN
            IF booking.payment_token # token
              THEN last' = Response(r.route, 404, "Invalid payment link", NoMessage,
                                    FALSE, r)
              ELSE last' = Response(r.route, 200, "summary", NoMessage, FALSE,
                                    [r EXCEPT !.summary = PaymentSummary(booking)])
  /\ UNCHANGED <<inflight, authDb, shopDb, reviewDb, clock, envSet>>

\* the list with a status it does not have
validStatusesAndDone ==
  {"pending", "confirmed", "in_progress", "completed", "cancelled", "done"}

validStatuses == {"pending", "confirmed", "in_progress", "completed", "cancelled"}

\* PATCH /:id/status (admin): UPDATE bookings SET status = $1,
\* updated_at = CURRENT_TIMESTAMP WHERE id = $2
PatchStatus(hasToken, id, status, ok) ==
  LET r == [route |-> "bookings/status", pc |-> "update", admin |-> TRUE,
            bookingId |-> id, status |-> status]
      same == UNCHANGED <<bookings, writer>>
  IN
  IF ~AuthenticateToken(hasToken) THEN Unauthorized("bookings/status")
  ELSE
    /\ IF status \notin validStatuses
         THEN last' = Response(r.route, 400, "Invalid status", NoMessage, FALSE, r)
              /\ same
       ELSE IF ~ok
         THEN last' = Response(r.route, 500, "Failed to update booking", NoMessage,
                               TRUE, r)
              /\ same
       ELSE IF \A b \in bookings : b.id # id
         THEN last' = Response(r.route, 404, "Booking not found", NoMessage, FALSE, r)
              /\ same
         ELSE /\ bookings' = {IF b.id = id
                                THEN [b EXCEPT !.status = status, !.updated_at = now]
                                ELSE b : b \in bookings}
              /\ Wrote(r.route, "update", TRUE)
              /\ last' = Response(r.route, 200, "booking", NoMessage, FALSE, r)
    /\ UNCHANGED <<inflight, authDb, coupons, bookingAddons, seq, reviewDb, clock,
                   envSet>>

\* a body of PUT /:id is a record of the fields it names; the remaining
\* seven fields the handler reads (customerName, ..., notes) are columns the
\* model does not keep and are treated as vehicleType is
PutReq(id, body) ==
  [route |-> "bookings/put", pc |-> "update", admin |-> TRUE, bookingId |-> id,
   body |-> body]

\* UPDATE bookings SET <the fields named>, updated_at = CURRENT_TIMESTAMP
PutRow(b, body) ==
  [b EXCEPT
     !.vehicle_type   = IF "vehicleType" \in DOMAIN body THEN body.vehicleType ELSE @,
     !.total_amount   = IF "totalAmount" \in DOMAIN body THEN body.totalAmount ELSE @,
     !.deposit_amount = IF "depositAmount" \in DOMAIN body THEN body.depositAmount
                        ELSE @,
     !.status         = IF "status" \in DOMAIN body THEN body.status ELSE @,
     !.updated_at     = now]

\* the handler with the UPDATE of the other fields run before the status is
\* looked at
PutBookingUpdatingFirst(hasToken, id, body, ok) ==
  LET r == PutReq(id, body)
      rest == [f \in DOMAIN body \ {"status"} |-> body[f]]
      same == UNCHANGED <<bookings, writer>>
  IN
  IF ~AuthenticateToken(hasToken) THEN Unauthorized("bookings/put")
  ELSE
    /\ IF DOMAIN body = {}
         THEN last' = Response(r.route, 400, "No fields to update", NoMessage, FALSE, r)
              /\ same
       ELSE IF ~ok
         THEN last' = Response(r.route, 500, "Failed to update booking", NoMessage,
                               TRUE, r)
              /\ same
       ELSE IF \A b \in bookings : b.id # id
         THEN last' = Response(r.route, 404, "Booking not found", NoMessage, FALSE, r)
              /\ same
       ELSE IF "status" \in DOMAIN body /\ body.status \notin validStatuses
         THEN /\ bookings' = {IF b.id = id THEN PutRow(b, rest) ELSE b : b \in bookings}
              /\ Wrote(r.route, "update", TRUE)
              /\ last' = Response(r.route, 400, "Invalid status", NoMessage, FALSE, r)
         ELSE /\ bookings' = {IF b.id = id THEN PutRow(b, body) ELSE b : b \in bookings}
              /\ Wrote(r.route, "update", TRUE)
              /\ last' = Response(r.route, 200, "booking", NoMessage, FALSE, r)
    /\ UNCHANGED <<inflight, authDb, coupons, bookingAddons, seq, reviewDb, clock,
                   envSet>>

\* PUT /:id (admin): the dynamic UPDATE of the fields the body names
PutBooking(hasToken, id, body, ok) ==
  LET r == PutReq(id, body)
      same == UNCHANGED <<bookings, writer>>
  IN
  IF ~AuthenticateToken(hasToken) THEN Unauthorized("bookings/put")
  ELSE
    /\ IF "status" \in DOMAIN body /\ body.status \notin validStatuses
         THEN last' = Response(r.route, 400, "Invalid status", NoMessage, FALSE, r)
              /\ same
       ELSE IF DOMAIN body = {}
         THEN last' = Response(r.route, 400, "No fields to update", NoMessage, FALSE, r)
              /\ same
       ELSE IF ~ok
         THEN last' = Response(r.route, 500, "Failed to update booking", NoMessage,
                               TRUE, r)
              /\ same
       ELSE IF \A b \in bookings : b.id # id
         THEN last' = Response(r.route, 404, "Booking not found", NoMessage, FALSE, r)
              /\ same
         ELSE /\ bookings' = {IF b.id = id THEN PutRow(b, body) ELSE b : b \in bookings}
              /\ Wrote(r.route, "update", TRUE)
              /\ last' = Response(r.route, 200, "booking", NoMessage, FALSE, r)
    /\ UNCHANGED <<inflight, authDb, coupons, bookingAddons, seq, reviewDb, clock,
                   envSet>>

(***************************************************************************)
(* routes/google-reviews.js                                                *)
(***************************************************************************)
MaxFetches == 3       \* requests that may call the Google Places API

\* parseInt(process.env.GOOGLE_REVIEWS_CACHE_HOURS) || 24, in hours
CACHE_HOURS == 24

PlaceId == "place"    \* process.env.GOOGLE_PLACE_ID

isConfigured == envSet.google

\* bodies the Places API answers with: a place with two reviews, the second
\* without author, rating and text, and a place without any field
GoogleReplies ==
  {[rating |-> Frac(48, 10), userRatingCount |-> 2, displayName |-> "Showers",
    reviews |-> <<[authorName |-> "Ann", photoUri |-> "ann.png", rating |-> 4,
                   text |-> "Great", originalText |-> "Super",
                   relativeTime |-> "a week ago", publishTime |-> "2024-01-01",
                   googleMapsUri |-> "maps/1"],
                  [authorName |-> NoText, photoUri |-> NoText, rating |-> NULL,
                   text |-> NoText, originalText |-> "Gut",
                   relativeTime |-> NoText, publishTime |-> NoText,
                   googleMapsUri |-> NoText]>>],
   [rating |-> Num(0), userRatingCount |-> NULL, displayName |-> NoText,
    reviews |-> <<>>]}

\* x || null for a string
OrNull(x) == IF x = NoText THEN SqlNullText ELSE x

\* transformReviews(googleData); an absent number is 0 and an absent string
\* '' in googleData, both falsy
transformReviews(googleData) ==
  [overall_rating |-> IF Falsy(googleData.rating) THEN SqlNull
                      ELSE googleData.rating,
   total_reviews  |-> googleData.userRatingCount,
   business_name  |-> googleData.displayName,
   reviews |->
     [i \in DOMAIN googleData.reviews |->
        LET review == googleData.reviews[i] IN
        [author_name      |-> IF review.authorName = NoText THEN "Anonymous"
                              ELSE review.authorName,
         author_photo_url |-> OrNull(review.photoUri),
         rating           |-> IF review.rating = NULL THEN 5 ELSE review.rating,
         text             |-> IF review.text # NoText THEN review.text
                              ELSE review.originalText,
         relative_time    |-> review.relativeTime,
         publish_time     |-> OrNull(review.publishTime),
         google_maps_uri  |-> OrNull(review.googleMapsUri)]]]

\* the row the upsert leaves in google_reviews_cache
CacheRow(transformed) ==
  [place_id |-> PlaceId, overall_rating |-> transformed.overall_rating,
   total_reviews |-> transformed.total_reviews, reviews_data |-> transformed,
   cached_at |-> now]

\* the TTL lookup with a row of exactly CACHE_HOURS still counted as fresh
FreshRowsInclusive ==
  {c \in reviewsCache : c.place_id = PlaceId /\ c.cached_at >= now - CACHE_HOURS}

\* SELECT * FROM google_reviews_cache WHERE place_id = $1
\* AND cached_at > NOW() - INTERVAL 'CACHE_HOURS hours'
FreshRows ==
  {c \in reviewsCache : c.place_id = PlaceId /\ c.cached_at > now - CACHE_HOURS}

\* SELECT * FROM google_reviews_cache WHERE place_id = $1
StaleRows == {c \in reviewsCache : c.place_id = PlaceId}

\* what the handlers copy from a cache row into the response;
\* parseFloat(null) is NaN, which JSON writes as null
FromCache(cached) ==
  [overall_rating |-> cached.overall_rating,
   total_reviews  |-> cached.total_reviews,
   business_name  |-> cached.reviews_data.business_name,
   reviews        |-> cached.reviews_data.reviews]

NoData == [reviews |-> <<>>]

\* a request of google-reviews.js; threw holds its awaited calls that threw
ReviewReq(route, pc) ==
  [route |-> route, pc |-> pc, data |-> NoData, cached |-> FALSE, stale |-> FALSE,
   cached_at |-> NULL, threw |-> {}]

ReviewRespond(r, status, body, message) ==
  last' = Response(r.route, status, body, message, r.threw # {}, r)

CanFetch ==
  /\ CanStart
  /\ upstream + Running("reviews/get") + Running("reviews/refresh") < MaxFetches

\* GET /: isConfigured() and the cache lookup of getCachedOrFetch(false)
ReviewsGet(ok) ==
  LET r == ReviewReq("reviews/get", "check") IN
  /\ IF ~isConfigured
       THEN ReviewRespond(r, 200, "disabled", "Google Reviews not configured")
            /\ UNCHANGED inflight
       ELSE /\ CanFetch
            /\ IF ~ok
                 THEN Await([r EXCEPT !.pc = "stale", !.threw = {"check"}])
                      /\ NoResponse
               ELSE IF FreshRows # {}
                 THEN LET cached == CHOOSE c \in FreshRows : TRUE IN
                      /\ ReviewRespond([r EXCEPT !.data = FromCache(cached),
                                                 !.cached = TRUE,
                                                 !.cached_at = cached.cached_at],
                                       200, "reviews", NoMessage)
                      /\ UNCHANGED inflight
                 ELSE Await([r EXCEPT !.pc = "fetch"]) /\ NoResponse
  /\ UNCHANGED <<authDb, shopDb, reviewDb, clock, envSet>>

\* GET /: fetchFromGoogle() and transformReviews; the call answers with
\* `reply`, or it fails (network error, status not ok, body not JSON)
ReviewsFetch(r, reply, ok) ==
  /\ r.route = "reviews/get" /\ r.pc = "fetch"
  /\ upstream' = upstream + 1
  /\ IF ok THEN Continue(r, [r EXCEPT !.pc = "upsert",
                                      !.data = transformReviews(reply)])
           ELSE Continue(r, [r EXCEPT !.pc = "stale", !.threw = {"fetch"}])
  /\ NoResponse
  /\ UNCHANGED <<authDb, shopDb, reviewsCache, clock, envSet>>

\* INSERT INTO google_reviews_cache ... ON CONFLICT (place_id) DO UPDATE ...
\* cached_at = NOW(), then the response of GET / or GET /refresh
ReviewsUpsert(r, ok, text) ==
  /\ r.route \in {"reviews/get", "reviews/refresh"} /\ r.pc = "upsert"
  /\ IF ok
       THEN /\ reviewsCache' = (reviewsCache \ StaleRows) \cup {CacheRow(r.data)}
            /\ IF r.route = "reviews/get"
                 THEN ReviewRespond([r EXCEPT !.cached_at = now], 200, "reviews",
                                    NoMessage)
                 ELSE ReviewRespond([r EXCEPT !.cached_at = now], 200, "refreshed",
                                    "Cache refreshed successfully")
            /\ Done(r)
       ELSE /\ UNCHANGED reviewsCache
            /\ IF r.route = "reviews/get"
                 THEN Continue(r, [r EXCEPT !.pc = "stale", !.threw = {"upsert"}])
                      /\ NoResponse
                 ELSE ReviewRespond([r EXCEPT !.threw = {"upsert"}], 500,
                                    "Failed to refresh Google reviews", text)
                      /\ Done(r)
  /\ UNCHANGED <<authDb, shopDb, upstream, clock, envSet>>

\* the lookup without the TTL, as the TTL lookup would answer it
ReviewsStaleWithinTtl(r, ok) ==
  /\ r.route = "reviews/get" /\ r.pc = "stale"
  /\ IF ok /\ FreshRows # {}
       THEN LET cached == CHOOSE c \in FreshRows : TRUE IN
            ReviewRespond([r EXCEPT !.data = FromCache(cached), !.cached = TRUE,
                                    !.stale = TRUE, !.cached_at = cached.cached_at],
                          200, "Using stale cache due to API error", NoMessage)
       ELSE ReviewRespond([r EXCEPT !.data = NoData,
                                    !.threw = IF ok THEN @ ELSE @ \cup {"stale"}],
                          500, "Failed to fetch Google reviews", NoMessage)
  /\ Done(r)
  /\ UNCHANGED <<authDb, shopDb, reviewDb, clock, envSet>>

\* GET /, in its catch: SELECT * FROM google_reviews_cache WHERE place_id = $1
\* and the stale response, or 500 when there is no row or the lookup throws
ReviewsStale(r, ok) ==
  /\ r.route = "reviews/get" /\ r.pc = "stale"
  /\ IF ok /\ StaleRows # {}
       THEN LET cached == CHOOSE c \in StaleRows : TRUE IN
            ReviewRespond([r EXCEPT !.data = FromCache(cached), !.cached = TRUE,
                                    !.stale = TRUE, !.cached_at = cached.cached_at],
                          200, "Using stale cache due to API error", NoMessage)
       ELSE ReviewRespond([r EXCEPT !.data = NoData,
                                    !.threw = IF ok THEN @ ELSE @ \cup {"stale"}],
                          500, "Failed to fetch Google reviews", NoMessage)
  /\ Done(r)
  /\ UNCHANGED <<authDb, shopDb, reviewDb, clock, envSet>>

\* the handler calling getCachedOrFetch(false): a fresh row is served
\* without a call of the upstream
ReviewsRefreshCacheFirst(reply, ok, text) ==
  LET r == ReviewReq("reviews/refresh", "fetch") IN
  /\ IF ~isConfigured
       THEN ReviewRespond(r, 400, "Google Reviews not configured", NoMessage)
            /\ UNCHANGED <<inflight, upstream>>
       ELSE /\ CanFetch
            /\ IF FreshRows # {}
                 THEN LET cached == CHOOSE c \in FreshRows : TRUE IN
                      /\ ReviewRespond([r EXCEPT !.data = FromCache(cached),
                                                 !.cached = TRUE,
                                                 !.cached_at = cached.cached_at],
                                       200, "refreshed", "Cache refreshed successfully")
                      /\ UNCHANGED <<inflight, upstream>>
               ELSE /\ upstream' = upstream + 1
                    /\ IF ok
                         THEN Await([r EXCEPT !.pc = "upsert",
                                              !.data = transformReviews(reply)])
                              /\ NoResponse
                         ELSE ReviewRespond([r EXCEPT !.threw = {"fetch"}], 500,
                                            "Failed to refresh Google reviews", text)
                              /\ UNCHANGED inflight
  /\ UNCHANGED <<authDb, shopDb, reviewsCache, clock, envSet>>

\* GET /refresh: isConfigured() and, in getCachedOrFetch(true), the call of
\* fetchFromGoogle(); error.message goes into the 500 response
ReviewsRefresh(reply, ok, text) ==
  LET r == ReviewReq("reviews/refresh", "fetch") IN
  /\ IF ~isConfigured
       THEN ReviewRespond(r, 400, "Google Reviews not configured", NoMessage)
            /\ UNCHANGED <<inflight, upstream>>
       ELSE /\ CanFetch
            /\ upstream' = upstream + 1
            /\ IF ok
                 THEN Await([r EXCEPT !.pc = "upsert",
                                      !.data = transformReviews(reply)])
                      /\ NoResponse
                 ELSE ReviewRespond([r EXCEPT !.threw = {"fetch"}], 500,
                                    "Failed to refresh Google reviews", text)
                      /\ UNCHANGED inflight
  /\ UNCHANGED <<authDb, shopDb, reviewsCache, clock, envSet>>

(***************************************************************************)
(* server.js                                                               *)
(***************************************************************************)
\* GET /health: await pool.query('SELECT 1')
Health(ok, text) ==
  /\ last' = IF ok
               THEN Response("health", 200, "healthy", NoMessage, FALSE, NoInfo)
               ELSE Response("health", 500, "unhealthy", text, TRUE, NoInfo)
  /\ UNCHANGED <<inflight, authDb, shopDb, reviewDb, clock, envSet>>

(***************************************************************************)
(* The initial state: empty tables, no request in flight.                  *)
(***************************************************************************)
Init ==
  /\ now = 0
  /\ ticks = 0
  /\ inflight = EmptyBag
  /\ last = None
  /\ adminUsers = {}
  /\ refreshTokens = {}
  /\ loggedOut = {}
  /\ jwtIssued = FALSE
  /\ coupons = {}
  /\ bookings = {}
  /\ bookingAddons = {}
  /\ seq = [coupon |-> 0, booking |-> 0, booked |-> 0, counted |-> 0]
  /\ writer = [route |-> "none", kind |-> "none", admin |-> FALSE]
  /\ reviewsCache = {}
  /\ upstream = 0
  /\ envSet \in {[admin |-> a, google |-> TRUE] : a \in BOOLEAN}

\* the state after the admin has logged in once (remember me not set) and has
\* been given refresh token 1 and an access token
InitAdmin ==
  /\ now = 0
  /\ ticks = 0
  /\ inflight = EmptyBag
  /\ last = None
  /\ adminUsers = {NewAdminRow}
  /\ refreshTokens = {[token_hash |-> Sha256(1), user_id |-> AdminId,
                       expires_at |-> ExpiryDays(FALSE) * HoursPerDay,
                       is_revoked |-> FALSE]}
  /\ loggedOut = {}
  /\ jwtIssued = TRUE
  /\ coupons = {}
  /\ bookings = {}
  /\ bookingAddons = {}
  /\ seq = [coupon |-> 0, booking |-> 0, booked |-> 0, counted |-> 0]
  /\ writer = [route |-> "none", kind |-> "none", admin |-> FALSE]
  /\ reviewsCache = {}
  /\ upstream = 0
  /\ envSet = [admin |-> TRUE, google |-> TRUE]

\* the bookings row POST /api/bookings inserts for service 1 and a sedan
\* without add-ons
SeedBooking(id) ==
  [id |-> id, vehicle_type |-> "sedan", package_id |-> NULL, service_id |-> 1,
   total_amount |-> Num(100), deposit_amount |-> Num(25), status |-> "pending",
   payment_token |-> 1, coupon_code |-> SqlNullText, coupon_discount |-> SqlNull,
   deposit_paid |-> FALSE, updated_at |-> 0]

\* the state after the admin has logged in and customers have created
\* ShopBookings bookings
InitShop ==
  /\ now = 0
  /\ ticks = 0
  /\ inflight = EmptyBag
  /\ last = None
  /\ adminUsers = {NewAdminRow}
  /\ refreshTokens = {[token_hash |-> Sha256(1), user_id |-> AdminId,
                       expires_at |-> ExpiryDays(FALSE) * HoursPerDay,
                       is_revoked |-> FALSE]}
  /\ loggedOut = {}
  /\ jwtIssued = TRUE
  /\ coupons = {}
  /\ bookings = {SeedBooking(id) : id \in 1..ShopBookings}
  /\ bookingAddons = {}
  /\ seq = [coupon |-> 0, booking |-> ShopBookings, booked |-> 0, counted |-> 0]
  /\ writer = [route |-> "bookings/create", kind |-> "insert", admin |-> FALSE]
  /\ reviewsCache = {}
  /\ upstream = 0
  /\ envSet = [admin |-> TRUE, google |-> TRUE]

\* the state after start-up, with the Google variables set or not
InitReviews ==
  /\ now = 0
  /\ ticks = 0
  /\ inflight = EmptyBag
  /\ last = None
  /\ adminUsers = {}
  /\ refreshTokens = {}
  /\ loggedOut = {}
  /\ jwtIssued = FALSE
  /\ coupons = {}
  /\ bookings = {}
  /\ bookingAddons = {}
  /\ seq = [coupon |-> 0, booking |-> 0, booked |-> 0, counted |-> 0]
  /\ writer = [route |-> "none", kind |-> "none", admin |-> FALSE]
  /\ reviewsCache = {}
  /\ upstream = 0
  /\ envSet \in {[admin |-> TRUE, google |-> g] : g \in BOOLEAN}

\* time passes
Tick(d) ==
  /\ ticks < MaxTicks
  /\ now' = now + d
  /\ ticks' = ticks + 1
  /\ NoResponse
  /\ UNCHANGED <<inflight, authDb, shopDb, reviewDb, envSet>>

(***************************************************************************)
(* Sessions: login, refresh and logout running concurrently while time     *)
(* passes, and the health check of server.js.                              *)
(***************************************************************************)
SessionTickSteps == {HoursPerDay, (REFRESH_TOKEN_EXPIRY_DAYS - 1) * HoursPerDay}

LoginSteps ==
  \/ \E r \in InFlight, ok \in BOOLEAN : LoginInsertUser(r, ok)
  \/ \E r \in InFlight, ok \in BOOLEAN : LoginInsertToken(r, ok)

NextSession ==
  \/ \E d \in SessionTickSteps : Tick(d)
  \/ \E e, p, m, ok \in BOOLEAN : Login(e, p, m, NoCode, ok)
  \/ LoginSteps
  \/ \E t \in Presentable, ok \in BOOLEAN : Refresh(t, ok)
  \/ \E t \in Presentable, ok \in BOOLEAN : Logout(t, ok)
  \/ \E h, ok \in BOOLEAN : Me(h, ok)
  \/ \E ok \in BOOLEAN, text \in ErrTexts : Health(ok, text)

SpecSession == Init /\ [][NextSession]_vars

(***************************************************************************)
(* Two-factor authentication: login and the /2fa routes running            *)
(* concurrently.                                                           *)
(***************************************************************************)
NextTwoFactor ==
  \/ \E e, p, ok \in BOOLEAN, c \in Codes : Login(e, p, FALSE, c, ok)
  \/ LoginSteps
  \/ \E h, ok \in BOOLEAN, s \in Secrets : Setup(h, ok, s)
  \/ \E r \in InFlight, ok \in BOOLEAN : SetupQr(r, ok)
  \/ \E r \in InFlight, ok \in BOOLEAN : SetupUpdate(r, ok)
  \/ \E h, ok \in BOOLEAN, c \in Codes : Verify(h, c, ok)
  \/ \E r \in InFlight, ok \in BOOLEAN : VerifyUpdate(r, ok)
  \/ \E h, ok, t \in BOOLEAN, c \in Codes : Disable(h, c, ok, t)
  \/ \E r \in InFlight, ok \in BOOLEAN : DisableUpdate(r, ok)
  \/ \E h, ok \in BOOLEAN : Status(h, ok)

SpecTwoFactor == Init /\ [][NextTwoFactor]_vars

(***************************************************************************)
(* Coupons: an admin who has logged in manages coupons; customers create   *)
(* bookings, validate and apply coupons, concurrently, while time passes.  *)
(***************************************************************************)
CouponTickSteps == {HoursPerDay}

CouponCodes == {"save", "vip"}
\* the bodies of POST /api/coupons: code, discount_type, discount_value,
\* max_uses, expires_at
CouponBodies ==
  {<<"save", "percent", Num(50), 1, HoursPerDay>>,
   <<"vip", "fixed", Num(150), NULL, NULL>>,
   <<"vip", "percent", Num(150), NULL, NULL>>,
   <<"vip", "bogus", Num(5), NULL, NULL>>,
   <<NoText, "fixed", Num(5), NULL, NULL>>}
Subtotals == {Num(100), Frac(9, 1000)}
BookingIds == 1..MaxBookings
CouponIds  == 1..MaxCoupons

NextCoupons ==
  \/ \E d \in CouponTickSteps : ticks < MaxShopTicks /\ Tick(d)
  \/ \E h, ok \in BOOLEAN, b \in CouponBodies :
       CouponCreate(h, b[1], b[2], b[3], b[4], b[5], ok)
  \/ \E h, ok \in BOOLEAN, id \in CouponIds : CouponToggle(h, id, ok)
  \/ \E c \in CouponCodes \cup {NoText}, t \in Subtotals, ok \in BOOLEAN :
       CouponValidate(c, t, ok)
  \/ \E ok \in BOOLEAN, c \in CouponCodes \cup {NoText},
        b \in 1..(ShopBookings + 1) \cup {NULL} : Apply(c, b, ok)
  \/ \E r \in InFlight, ok \in BOOLEAN : ApplySelectBooking(r, ok)
  \/ \E r \in InFlight, ok \in BOOLEAN : ApplyUpdateBooking(r, ok)
  \/ \E r \in InFlight, ok \in BOOLEAN : ApplyUpdateCoupon(r, ok)

SpecCoupons == InitShop /\ [][NextCoupons]_vars

(***************************************************************************)
(* Coupon administration: the admin creates, lists, toggles and deletes    *)
(* coupons while customers validate codes.                                 *)
(***************************************************************************)
NextCouponAdmin ==
  \/ \E d \in CouponTickSteps : ticks < MaxShopTicks /\ Tick(d)
  \/ \E h, ok \in BOOLEAN, b \in CouponBodies :
       CouponCreate(h, b[1], b[2], b[3], b[4], b[5], ok)
  \/ \E h, ok \in BOOLEAN : CouponList(h, ok)
  \/ \E h, ok \in BOOLEAN, id \in CouponIds : CouponToggle(h, id, ok)
  \/ \E h, ok \in BOOLEAN, id \in CouponIds : CouponDelete(h, id, ok)
  \/ \E c \in CouponCodes \cup {NoText}, t \in Subtotals, ok \in BOOLEAN :
       CouponValidate(c, t, ok)

SpecCouponAdmin == InitShop /\ [][NextCouponAdmin]_vars

(***************************************************************************)
(* Coupon values: the admin creates coupons of every kind of value and     *)
(* customers apply them to a booking.                                      *)
(***************************************************************************)
\* bodies of POST /api/coupons that differ in type and value
CouponValueBodies ==
  {<<"save", "percent", Num(50), NULL, NULL>>,
   <<"save", "percent", Num(100), NULL, NULL>>,
   <<"save", "percent", Num(101), NULL, NULL>>,
   <<"save", "percent", Num(-10), NULL, NULL>>,
   <<"save", "percent", Num(0), NULL, NULL>>,
   <<"SAVE", "fixed", Num(5), NULL, NULL>>,
   <<"vip", "fixed", Num(150), NULL, NULL>>,
   <<"vip", "fixed", Num(-5), NULL, NULL>>,
   <<"vip", "bogus", Num(5), NULL, NULL>>,
   <<NoText, "fixed", Num(5), NULL, NULL>>}

NextCouponValues ==
  \/ \E h, ok \in BOOLEAN, b \in CouponValueBodies :
       CouponCreate(h, b[1], b[2], b[3], b[4], b[5], ok)
  \/ \E ok \in BOOLEAN, c \in CouponCodes, b \in 1..ShopBookings : Apply(c, b, ok)
  \/ \E r \in InFlight, ok \in BOOLEAN : ApplySelectBooking(r, ok)
  \/ \E r \in InFlight, ok \in BOOLEAN : ApplyUpdateBooking(r, ok)
  \/ \E r \in InFlight, ok \in BOOLEAN : ApplyUpdateCoupon(r, ok)

SpecCouponValues == InitShop /\ [][NextCouponValues]_vars

(***************************************************************************)
(* Bookings: customers create bookings and anyone reads them.              *)
(***************************************************************************)
\* the bodies of POST /api/bookings: vehicleType, serviceId, packageId, addons
BookingBodies ==
  {<<"sedan", 1, NULL, <<>>>>,
   <<"SUV", 1, NULL, <<1, 2>>>>,
   <<"SUV", NULL, 1, <<1, 1>>>>,
   <<"sedan", 2, NULL, <<>>>>,
   <<"sedan", NULL, 2, <<>>>>,
   <<"sedan", NULL, NULL, <<>>>>}

NextBookings ==
  \/ \E d \in CouponTickSteps : ticks < MaxShopTicks /\ Tick(d)
  \/ \E b \in BookingBodies, ok \in BOOLEAN :
       BookingCreate(b[1], b[2], b[3], b[4], ok)
  \/ \E r \in InFlight, ok \in BOOLEAN : BookingSelectAddons(r, ok)
  \/ \E r \in InFlight, ok \in BOOLEAN, t \in generatePaymentToken :
       BookingSelectSettings(r, ok, t)
  \/ \E r \in InFlight, ok \in BOOLEAN : BookingInsert(r, ok)
  \/ \E r \in InFlight :
       /\ r.route = "bookings/create"
       /\ \E done \in SUBSET r.addonDetails : BookingInsertAddons(r, done)
  \/ \E r \in InFlight, ok \in BOOLEAN : BookingNotify(r, ok)
  \/ \E h, ok \in BOOLEAN, id \in BookingIds : BookingGet(h, id, ok)
  \/ \E h, ok \in BOOLEAN, id \in BookingIds, st \in {"confirmed", "done"} :
       PatchStatus(h, id, st, ok)

SpecBookings == InitAdmin /\ [][NextBookings]_vars

(***************************************************************************)
(* Payment pages: customers create bookings and open the payment page of   *)
(* a booking with the token of a payment link.                             *)
(***************************************************************************)
\* bodies of POST /api/bookings without add-ons
PlainBookingBodies ==
  {<<"sedan", 1, NULL, <<>>>>,
   <<"SUV", NULL, 1, <<>>>>}

NextPayment ==
  \/ \E b \in PlainBookingBodies, ok \in BOOLEAN :
       BookingCreate(b[1], b[2], b[3], b[4], ok)
  \/ \E r \in InFlight, ok \in BOOLEAN, t \in generatePaymentToken :
       BookingSelectSettings(r, ok, t)
  \/ \E r \in InFlight, ok \in BOOLEAN : BookingInsert(r, ok)
  \/ \E r \in InFlight, ok \in BOOLEAN : BookingNotify(r, ok)
  \/ \E id \in BookingIds, t \in PayTokens \cup {NULL, ForgedPayToken},
        ok \in BOOLEAN : PaymentInfo(id, t, ok)

SpecPayment == InitAdmin /\ [][NextPayment]_vars

(***************************************************************************)
(* Booking administration: customers create bookings and the admin changes *)
(* their status and their fields while time passes.                        *)
(***************************************************************************)
\* the bodies of PUT /api/bookings/:id
PutBodies ==
  {[status |-> "completed"],
   [status |-> "done", totalAmount |-> Num(80)],
   [totalAmount |-> Num(80), vehicleType |-> "suv"],
   <<>>}

NextBookingAdmin ==
  \/ \E d \in CouponTickSteps : ticks < MaxShopTicks /\ Tick(d)
  \/ \E b \in PlainBookingBodies, ok \in BOOLEAN :
       BookingCreate(b[1], b[2], b[3], b[4], ok)
  \/ \E r \in InFlight, ok \in BOOLEAN, t \in generatePaymentToken :
       BookingSelectSettings(r, ok, t)
  \/ \E r \in InFlight, ok \in BOOLEAN : BookingInsert(r, ok)
  \/ \E r \in InFlight, ok \in BOOLEAN : BookingNotify(r, ok)
  \/ \E h, ok \in BOOLEAN, id \in BookingIds, st \in {"confirmed", "done", NoText} :
       PatchStatus(h, id, st, ok)
  \/ \E h, ok \in BOOLEAN, id \in BookingIds, body \in PutBodies :
       PutBooking(h, id, body, ok)

SpecBookingAdmin == InitShop /\ [][NextBookingAdmin]_vars

(***************************************************************************)
(* Reviews: visitors read the Google reviews and the cache is refreshed    *)
(* while the cache row ages.                                               *)
(***************************************************************************)
ReviewTickSteps == {1, CACHE_HOURS - 1}

NextReviews ==
  \/ \E d \in ReviewTickSteps : Tick(d)
  \/ \E ok \in BOOLEAN : ReviewsGet(ok)
  \/ \E r \in InFlight, g \in GoogleReplies, ok \in BOOLEAN : ReviewsFetch(r, g, ok)
  \/ \E r \in InFlight, ok \in BOOLEAN, text \in ErrTexts : ReviewsUpsert(r, ok, text)
  \/ \E r \in InFlight, ok \in BOOLEAN : ReviewsStale(r, ok)
  \/ \E g \in GoogleReplies, ok \in BOOLEAN, text \in ErrTexts :
       ReviewsRefresh(g, ok, text)

SpecReviews == InitReviews /\ [][NextReviews]_vars

(***************************************************************************)
(* Claims                                                                  *)
(***************************************************************************)

\* C1: once /logout has answered success for a refresh token, a later
\* /refresh presenting that token is answered 401 (here: every /refresh that
\* started after the logout response and whose own query did not fail).
C1_RefreshAfterLogoutRejected ==
  (last.route = "refresh" /\ last.info.lo /\ ~last.failed) => last.status = 401

\* C2: a login that read totp_enabled = true is answered with tokens only if
\* it supplied a valid TOTP code.
C2_TokensOnlyWithValidTotp ==
  (last.route = "login" /\ last.body = "tokens" /\ last.info.en)
    => last.info.codeOk

\* C3: GET /api/bookings/:id returns the booking row only to a request that
\* carries a valid admin access token.
C3_BookingDetailsAdminOnly ==
  (last.route = "bookings/get" /\ last.status = 200) => last.info.admin

\* C4: an existing bookings or coupons row is changed (updated or deleted)
\* only by a request that carries a valid admin access token.
C4_RowsChangedOnlyByAdmin ==
  writer.kind \in {"update", "delete"} => writer.admin

\* C5: the discount is capped at the amount it is taken from: apply stores a
\* discount no larger than the booking's total_amount and a new total that is
\* not negative, and validate returns a discountAmount no larger than the
\* subtotal given.
C5_DiscountCapped ==
  /\ \A r \in InFlight :
       (r.route = "coupons/apply" /\ r.pc \in {"updateBooking", "updateCoupon"})
         => FLeq(r.discount, r.oldTotal) /\ FLeq(Num(0), r.newTotal)
  /\ (last.route = "coupons/validate" /\ last.status = 200)
       => FLeq(last.info.discount, last.info.subtotal)

\* C6: apply writes the booking first and increments used_count second: the
\* increments never outnumber the booking updates, and an apply whose
\* increment fails answers 500 'Failed to apply coupon' after its booking
\* update has been committed and without the increment.
C6_BookingWrittenBeforeCount ==
  /\ seq.counted <= seq.booked
  /\ \A r \in InFlight :
       (r.route = "coupons/apply" /\ r.pc = "updateCoupon")
         => seq.counted < seq.booked
  /\ (last.route = "coupons/apply" /\ last.failed /\ last.info.pc = "updateCoupon")
       => /\ last.status = 500
          /\ last.body = "Failed to apply coupon"
          /\ seq.counted < seq.booked

\* C6, the case: the increment of an apply failed; the booking carries the
\* coupon and the reduced total while the coupon's used_count is still 0.
C6_FailedBetweenWrites ==
  /\ last.route = "coupons/apply" /\ last.failed /\ last.info.pc = "updateCoupon"
  /\ last.status = 500
  /\ \E b \in bookings :
       /\ b.id = last.info.bookingId
       /\ b.coupon_code = last.info.coupon.code
       /\ b.total_amount = last.info.newTotal
       /\ FLt(b.total_amount, last.info.oldTotal)
  /\ \E c \in coupons : c.id = last.info.coupon.id /\ c.used_count = 0

\* a coupons row a lookup at this moment may accept
Acceptable(c) ==
  /\ c.is_active
  /\ (c.expires_at = NULL \/ c.expires_at > now)
  /\ (c.max_uses = NULL \/ c.used_count < c.max_uses)

\* the acceptable rows of coupons with the (upper-cased) code
AcceptableFor(code) == {c \in coupons : c.code = ToUpperCase(code) /\ Acceptable(c)}

\* a step in which POST /apply accepted a code: a request is newly waiting on
\* its booking query
Accepted(r) ==
  /\ r.route = "coupons/apply" /\ r.pc = "selectBooking"
  /\ CopiesIn(r, inflight') > CopiesIn(r, inflight)

\* a response of validate or apply sent at the coupon lookup to a request
\* that names a code
AtLookup(resp) ==
  /\ resp.route \in {"coupons/validate", "coupons/apply"}
  /\ resp.info.pc = "selectCoupon"
  /\ resp.info.code # NoText

\* C7 as stated: validate and apply accept a code only when an active,
\* unexpired coupon under its usage limit carries it; in every other case the
\* answer is 404 and no booking and no coupon row changes.
C7_RejectedWith404 ==
  [][/\ \A r \in BagToSet(inflight') : Accepted(r) => r.coupon \in AcceptableFor(r.code)
     /\ (last'.route = "coupons/validate" /\ last'.status = 200)
          => last'.info.coupon \in AcceptableFor(last'.info.code)
     /\ (AtLookup(last') /\ ~last'.failed /\ AcceptableFor(last'.info.code) = {})
          => last'.status = 404 /\ UNCHANGED <<coupons, bookings>>]_vars

\* C7, amended: as C7, except that apply answers 400 'Coupon code and booking
\* ID required' before it looks the code up when the request names no
\* booking, and that a failing lookup answers 500; in each of these cases
\* too no booking and no coupon row changes.
C7_RejectedWithoutChange ==
  [][/\ \A r \in BagToSet(inflight') : Accepted(r) => r.coupon \in AcceptableFor(r.code)
     /\ (last'.route = "coupons/validate" /\ last'.status = 200)
          => last'.info.coupon \in AcceptableFor(last'.info.code)
     /\ (AtLookup(last') /\ AcceptableFor(last'.info.code) = {})
          => /\ IF last'.route = "coupons/apply" /\ last'.info.bookingId = NULL
                  THEN /\ last'.status = 400
                       /\ last'.body = "Coupon code and booking ID required"
                ELSE IF last'.failed
                  THEN last'.status = 500
                  ELSE /\ last'.status = 404
                       /\ last'.body = "Invalid or expired coupon code"
             /\ UNCHANGED <<coupons, bookings>>]_vars

\* C7, the case: a code whose coupon exists but has expired was answered 404.
C7_ExpiredCodeRejected ==
  /\ AtLookup(last) /\ last.status = 404
  /\ \E c \in coupons :
       /\ c.code = ToUpperCase(last.info.code)
       /\ c.is_active
       /\ c.expires_at # NULL /\ c.expires_at <= now

\* a response of GET /api/google-reviews sent from the handler's catch
FromCatch(resp) == resp.route = "reviews/get" /\ resp.info.pc = "stale"

\* the response carries the data of cache row c, marked cached and stale
StaleCopyOf(resp, c) ==
  /\ resp.status = 200
  /\ resp.info.cached /\ resp.info.stale
  /\ resp.info.data = FromCache(c)
  /\ resp.info.cached_at = c.cached_at

\* the 500 response of GET /api/google-reviews, with an empty reviews list
EmptyFailure(resp) ==
  /\ resp.status = 500
  /\ resp.body = "Failed to fetch Google reviews"
  /\ resp.info.data = NoData

\* C8 as stated: when the Google fetch or the cache write has failed, GET
\* /api/google-reviews answers 200 with the data of the cache row for the
\* place, marked cached and stale, whenever such a row exists, however old,
\* and leaves the row unchanged; only when no row exists it answers 500 with
\* an empty reviews list.
C8_StaleUnlessNoRow ==
  [][(FromCatch(last') /\ last'.info.threw \cap {"fetch", "upsert"} # {})
       => /\ UNCHANGED reviewsCache
          /\ IF StaleRows # {}
               THEN \E c \in StaleRows : StaleCopyOf(last', c)
               ELSE EmptyFailure(last')]_vars

\* C8, amended: when the cache lookup, the Google fetch or the cache write
\* has failed, GET /api/google-reviews looks the row up again; it answers 200
\* with the row's data marked cached and stale when that lookup succeeds and
\* finds a row, however old, and 500 with an empty reviews list when the
\* lookup finds no row or fails itself; the cache row is left unchanged.
C8_StaleWhenLookupSucceeds ==
  [][FromCatch(last')
       => /\ UNCHANGED reviewsCache
          /\ IF StaleRows # {} /\ "stale" \notin last'.info.threw
               THEN \E c \in StaleRows : StaleCopyOf(last', c)
               ELSE EmptyFailure(last')]_vars

\* C8, the case: the fetch failed and a row older than the TTL was served.
C8_OldRowServed ==
  /\ FromCatch(last) /\ "fetch" \in last.info.threw
  /\ \E c \in reviewsCache :
       /\ c.cached_at + CACHE_HOURS <= now
       /\ StaleCopyOf(last, c)

\* a cache row younger than the TTL
Fresh(c) == c.place_id = PlaceId /\ now - c.cached_at < CACHE_HOURS

\* request r has newly entered, or has left, the bag of requests in flight
Entered(r) == CopiesIn(r, inflight') > CopiesIn(r, inflight)
Left(r)    == CopiesIn(r, inflight') < CopiesIn(r, inflight)

C10_FailureAnswered500 ==
  last.failed => (last.status = 500 /\ last.message = NoMessage)

\* the bookings rows that the id and the token of a payment-info request
\* name together
HeldBy(resp) ==
  {b \in bookings : /\ b.id = resp.info.bookingId
                    /\ resp.info.token # NULL
                    /\ b.payment_token = resp.info.token}

\* C11: GET /api/bookings/:id/payment-info answers with the summary of
\* booking :id exactly when the token of the request equals the payment_token
\* stored for that booking (and the query did not fail); without a token the
\* answer is 400, with a token that differs, also when it is the token of
\* another booking, 404, and in neither case the response carries a field of
\* the booking.
C11_SummaryOnlyWithBookingToken ==
  last.route = "bookings/payment-info" =>
    /\ last.status = 200 <=> (HeldBy(last) # {} /\ ~last.failed)
    /\ last.status = 200
         => \E b \in HeldBy(last) :
              /\ last.info.summary.id = b.id
              /\ last.info.summary.totalAmount = b.total_amount
              /\ last.info.summary.depositAmount = b.deposit_amount
              /\ last.info.summary.vehicleType = b.vehicle_type
    /\ last.status # 200 => last.info.summary = SqlNull
    /\ last.info.token = NULL => last.status = 400
    /\ (last.info.token # NULL /\ HeldBy(last) = {} /\ ~last.failed)
         => last.status = 404

\* C11, the case: the token of another booking, which differs from this
\* booking's, was presented for this booking and answered 404.
C11_OtherBookingsTokenRejected ==
  /\ last.route = "bookings/payment-info" /\ last.status = 404
  /\ last.body = "Invalid payment link"
  /\ \E a, b \in bookings :
       /\ a.id = last.info.bookingId /\ b.id # a.id
       /\ b.payment_token = last.info.token
       /\ a.payment_token # b.payment_token

\* the catalogue price a booking request asks for: the service's price for
\* the vehicle type, or the package's when no service is named
ListPrice(r) ==
  IF r.serviceId # NULL
    THEN ServicePrice(CHOOSE x \in services : x.id = r.serviceId, r.vehicleType)
    ELSE PackagePrice(CHOOSE x \in packages : x.id = r.packageId, r.vehicleType)

\* the add-ons of the catalogue that a request names and that are active
WantedAddons(r) ==
  {a \in addons : a.is_active /\ \E i \in DOMAIN r.addonIds : r.addonIds[i] = a.id}

\* the sum of the prices of a set of add-ons for a vehicle type
RECURSIVE SumOf(_, _)
SumOf(as, vehicleType) ==
  IF as = {} THEN Num(0)
  ELSE LET a == CHOOSE x \in as : TRUE
       IN FAdd(AddonPrice(a, vehicleType), SumOf(as \ {a}, vehicleType))

\* the deposit percentage of the settings table
DepositShare == (CHOOSE x \in settings : x.key = "deposit_percentage").value

\* C12: POST /api/bookings adds rows to bookings only by its INSERT, one row
\* with a new id per request; the row has status 'pending', total_amount =
\* the service/package price for the vehicle type plus the prices of the
\* requested active add-ons, each id counted once, and deposit_amount =
\* total_amount times the deposit percentage; the 201 response (payment link)
\* carries the id and the payment_token of exactly one row.
C12_OneRowPricedFromCatalogue ==
  [][/\ Cardinality(bookings') # Cardinality(bookings)
          => \E r \in InFlight :
               /\ r.route = "bookings/create" /\ r.pc = "insert" /\ Left(r)
               /\ \E b \in bookings' :
                    /\ bookings' = bookings \cup {b}
                    /\ \A x \in bookings : x.id # b.id
                    /\ b.status = "pending"
                    /\ b.total_amount =
                         FAdd(ListPrice(r), SumOf(WantedAddons(r), r.vehicleType))
                    /\ b.deposit_amount = FMul(b.total_amount, DepositShare)
                    /\ b.payment_token = r.paymentToken
     /\ (last'.route = "bookings/create" /\ last'.status = 201)
          => /\ Cardinality({b \in bookings' :
                               /\ b.id = last'.info.bookingId
                               /\ b.payment_token = last'.info.paymentToken}) = 1
             /\ UNCHANGED <<bookings, bookingAddons>>]_vars

\* C12, the case: a booking that asked for an active and an inactive add-on
\* was created; its row counts the active one only.
C12_InactiveAddonIgnored ==
  /\ last.route = "bookings/create" /\ last.status = 201
  /\ \E a \in addons, i \in DOMAIN last.info.addonIds :
       ~a.is_active /\ last.info.addonIds[i] = a.id
  /\ \E b \in bookings :
       /\ b.id = last.info.bookingId
       /\ FLt(ListPrice(last.info), b.total_amount)
       /\ b.total_amount = FAdd(ListPrice(last.info),
                                SumOf(WantedAddons(last.info), last.info.vehicleType))
       /\ b.deposit_amount = FMul(b.total_amount, DepositShare)

\* C13: when a step after the bookings INSERT fails (an add-on insert or the
\* notification), the request is answered 500 'Failed to create booking' and
\* the row it inserted is still in the table, untouched by the failing step;
\* and the INSERT of a request always adds a row with a new id, whatever rows
\* earlier requests with the same body have left.
C13_RowStaysAfterLateFailure ==
  [][/\ ( /\ last'.route = "bookings/create" /\ last'.failed
          /\ last'.info.pc \in {"insertAddons", "notify"} )
          => /\ last'.status = 500
             /\ last'.body = "Failed to create booking"
             /\ \E b \in bookings' : b.id = last'.info.bookingId
             /\ UNCHANGED bookings
     /\ \A r \in InFlight :
          ( /\ r.route = "bookings/create" /\ r.pc = "insert" /\ Left(r)
            /\ last'.status # 500 )
            => /\ Cardinality(bookings') = Cardinality(bookings) + 1
               /\ \A b \in bookings' \ bookings : \A x \in bookings : x.id # b.id]_vars

\* C13, the case: a request was repeated after its add-on insert had failed;
\* the table holds the row of the failed request, without add-on rows, and
\* the row of the repeated one.
C13_RepeatedAfterFailure ==
  /\ last.route = "bookings/create" /\ last.status = 201
  /\ inflight = EmptyBag
  /\ WantedAddons(last.info) # {}
  /\ \E a, b \in bookings :
       /\ b.id = last.info.bookingId /\ a.id < b.id
       /\ a.vehicle_type = b.vehicle_type
       /\ a.service_id = b.service_id /\ a.package_id = b.package_id
       /\ a.total_amount = b.total_amount
       /\ \A x \in bookingAddons : x.booking_id # a.id
       /\ \E x \in bookingAddons : x.booking_id = b.id

\* the statuses a booking may have
Statuses == {"pending", "confirmed", "in_progress", "completed", "cancelled"}

\* a response of PATCH /:id/status or PUT /:id sent by the handler (the
\* request has passed authenticateToken)
FromStatusHandler(resp) ==
  /\ resp.body # "Access token required"
  /\ resp.route \in {"bookings/status", "bookings/put"}

\* the request that a response answers named a status that is not one of
\* the five
NamesOtherStatus(resp) ==
  IF resp.route = "bookings/status" THEN resp.info.status \notin Statuses
  ELSE "status" \in DOMAIN resp.info.body /\ resp.info.body.status \notin Statuses

\* C14: every booking's status is one of pending, confirmed, in_progress,
\* completed, cancelled in every reachable state, and a PATCH /:id/status or
\* PUT /:id request that reaches its handler and names another status is
\* answered 400.
C14_StatusAlwaysValid ==
  /\ \A b \in bookings : b.status \in Statuses
  /\ (FromStatusHandler(last) /\ NamesOtherStatus(last)) => last.status = 400

\* C14, the case: a booking has left 'pending' by an update and a request
\* naming the status 'done' for an existing booking was answered 400.
C14_OtherStatusRefused ==
  /\ FromStatusHandler(last) /\ NamesOtherStatus(last)
  /\ last.status = 400
  /\ \E b \in bookings : b.id = last.info.bookingId /\ b.status # "pending"

\* C19: a PUT /:id with an invalid status (whatever other fields it names) or
\* with no field, and a PATCH /:id/status with an invalid status, are
\* answered 400 and leave every row of bookings as it was, updated_at
\* included.
C19_RejectedUpdateChangesNothing ==
  [][FromStatusHandler(last')
       => /\ ( \/ NamesOtherStatus(last')
               \/ (last'.route = "bookings/put" /\ DOMAIN last'.info.body = {}) )
               => last'.status = 400
          /\ last'.status = 400 => UNCHANGED <<bookings, bookingAddons, coupons>>]_vars

\* C19, the case: a PUT naming an invalid status together with a new
\* total_amount was refused, at a time when updated_at would have changed.
C19_RefusedWithOtherFields ==
  /\ last.route = "bookings/put" /\ last.status = 400
  /\ last.body = "Invalid status"
  /\ "totalAmount" \in DOMAIN last.info.body
  /\ \E b \in bookings :
       /\ b.id = last.info.bookingId
       /\ b.total_amount # last.info.body.totalAmount
       /\ b.updated_at < now

\* the row a create request asks for breaks a rule for stored coupons: its
\* type is not percent or fixed, it is a percent coupon with a value outside
\* 0..100, or a coupon with its code exists
BreaksRule(c) ==
  \/ c.discount_type \notin {"percent", "fixed"}
  \/ /\ c.discount_type = "percent"
     /\ ~(FLeq(Num(0), c.discount_value) /\ FLeq(c.discount_value, Num(100)))
  \/ \E x \in coupons : x.code = c.code

\* the rows of a coupons table keep the rules
WellFormed(cs) ==
  \A c \in cs :
    /\ c.discount_type \in {"percent", "fixed"}
    /\ c.discount_type = "percent"
         => FLeq(Num(0), c.discount_value) /\ FLeq(c.discount_value, Num(100))
    /\ \A d \in cs : d.code = c.code => d = c

\* C15: every coupon stored through POST /api/coupons has discount_type
\* percent or fixed, a value in 0..100 when it is a percent coupon, and a
\* code no other coupon has; a create request that reaches the handler and
\* breaks one of these rules is answered 400, and only a 201 inserts a row,
\* the one the body asks for.
C15_StoredCouponsWellFormed ==
  [][/\ WellFormed(coupons')
     /\ (last'.route = "coupons/create" /\ last'.body # "Access token required")
          => /\ (BreaksRule(last'.info.coupon) /\ ~last'.failed) => last'.status = 400
             /\ last'.status # 201 => UNCHANGED coupons
             /\ last'.status = 201
                  => /\ ~BreaksRule(last'.info.coupon)
                     /\ coupons' = coupons \cup {last'.info.coupon}]_vars

\* C15, the case: with a coupon stored, a percent coupon of value 101 under
\* another code was refused.
C15_PercentAbove100Refused ==
  /\ last.route = "coupons/create" /\ last.status = 400
  /\ last.body = "Percent discount must be between 0 and 100"
  /\ last.info.coupon.discount_type = "percent"
  /\ FLt(Num(100), last.info.coupon.discount_value)
  /\ coupons # {}
  /\ \A c \in coupons : c.code # last.info.coupon.code

\* C18: the discount POST /api/coupons/apply stores is at least 0 and the
\* new total_amount is at most the old one, for every coupon POST
\* /api/coupons can create.
C18_DiscountNeverNegative ==
  \A r \in InFlight :
    (r.route = "coupons/apply" /\ r.pc \in {"updateBooking", "updateCoupon"})
      => FLeq(Num(0), r.discount) /\ FLeq(r.newTotal, r.oldTotal)

\* the rows of refresh_tokens that make a token acceptable now: the row of
\* its hash, not revoked, not yet expired, of an active admin
Usable(tok) ==
  {rt \in refreshTokens :
     /\ rt.token_hash = Sha256(tok)
     /\ ~rt.is_revoked
     /\ now < rt.expires_at
     /\ \E u \in adminUsers : u.id = rt.user_id /\ u.is_active}

\* C16: POST /api/auth/refresh answers 400 without a token and otherwise,
\* unless its query fails, 200 with a new access token exactly when the
\* token's hash names a row that is not revoked, not expired and belongs to
\* an active admin, and 401 in every other case; the row login inserts
\* expires 30 days after the insert when rememberMe was set and 1 day after
\* it otherwise.
C16_RefreshOnlyWithLiveToken ==
  [][/\ last'.route = "refresh"
          => IF last'.info.tok = NULL THEN last'.status = 400
             ELSE IF last'.failed THEN last'.status = 500
             ELSE IF Usable(last'.info.tok) # {}
               THEN last'.status = 200 /\ last'.body = "accessToken"
               ELSE last'.status = 401
     /\ \A rt \in refreshTokens' :
          (\A x \in refreshTokens : x.token_hash # rt.token_hash)
            => \E r \in InFlight :
                 /\ r.route = "login" /\ r.pc = "insertToken" /\ Left(r)
                 /\ ~rt.is_revoked
                 /\ rt.expires_at = now + (IF r.remember THEN 30 ELSE 1) * 24]_vars

\* C16, the case: a token issued with rememberMe and never revoked was
\* refused 30 days after its issue.
C16_RefusedAfterThirtyDays ==
  /\ last.route = "refresh" /\ last.status = 401
  /\ now = 30 * 24
  /\ \E rt \in refreshTokens :
       /\ rt.token_hash = Sha256(last.info.tok)
       /\ ~rt.is_revoked
       /\ rt.expires_at = now

\* two-factor authentication is enabled in a table admin_users
TwoFactorOn(us) == \E u \in us : u.totp_enabled

\* C17: totp_enabled goes from false to true only in a /2fa/verify that
\* answers 200 and whose code is valid for the secret that is stored; no
\* step of /2fa/setup changes totp_enabled; a /2fa/verify that finds no
\* stored secret, or whose code is not valid for the stored one, is answered
\* 400 and leaves admin_users as it was.
C17_EnabledOnlyByConfirmation ==
  [][/\ (~TwoFactorOn(adminUsers) /\ TwoFactorOn(adminUsers'))
          => /\ last'.route = "2fa/verify" /\ last'.status = 200
             /\ \E u \in adminUsers' :
                  u.totp_secret # NULL /\ last'.info.code = Totp(u.totp_secret)
     /\ (\E r \in InFlight : r.route = "2fa/setup" /\ Left(r))
          => TwoFactorOn(adminUsers') = TwoFactorOn(adminUsers)
     /\ ( /\ last'.route = "2fa/verify"
          /\ last'.body # "Access token required"
          /\ ~last'.failed
          /\ \A u \in adminUsers :
               u.totp_secret = NULL \/ last'.info.code # Totp(u.totp_secret) )
          => last'.status = 400 /\ UNCHANGED adminUsers]_vars

\* C20: a login whose email or password differs from the configured one is
\* answered 401, a login while ADMIN_EMAIL or ADMIN_PASSWORD is unset is
\* answered 500, and neither goes on to a query: admin_users and
\* refresh_tokens stay as they were and no such request waits on a query.
C20_FailedLoginWritesNothing ==
  [][/\ (last'.route = "login" /\ ~envSet.admin)
          => last'.status = 500 /\ UNCHANGED <<adminUsers, refreshTokens>>
     /\ (last'.route = "login" /\ envSet.admin /\ ~last'.info.creds)
          => last'.status = 401 /\ UNCHANGED <<adminUsers, refreshTokens>>
     /\ \A r \in BagToSet(inflight') : r.route = "login" => r.creds /\ envSet.admin
     /\ ~envSet.admin => adminUsers' = {} /\ refreshTokens' = {}]_vars

\* C20, the case: before any successful login, a login with a wrong email
\* or password was answered 401 and admin_users is still empty.
C20_WrongCredentialsRefused ==
  /\ last.route = "login" /\ last.status = 401 /\ ~last.info.creds
  /\ envSet.admin
  /\ adminUsers = {} /\ refreshTokens = {}

\* the coupons rows that carry the (upper-cased) code
Named(code) == {c \in coupons : c.code = ToUpperCase(code)}

\* a response sent at the coupon lookup to a request that is complete: it
\* names a code and, for apply, a booking
AtLookupComplete(resp) ==
  /\ resp.route \in {"coupons/validate", "coupons/apply"}
  /\ resp.info.pc = "selectCoupon"
  /\ resp.info.code # NoText
  /\ resp.route = "coupons/apply" => resp.info.bookingId # NULL

\* C21: a successful PATCH /api/coupons/:id/toggle replaces is_active of the
\* coupon :id by its negation (so a second toggle restores it) and changes no
\* other field, coupon or booking; while every coupon with a code is
\* inactive, validate and apply answer a request for that code with 404, and
\* they accept only a coupon that is active at their lookup.
C21_ToggleFlipsOneCoupon ==
  [][/\ (last'.route = "coupons/toggle" /\ last'.status = 200)
          => /\ \E c \in coupons :
                  /\ c.id = last'.info.coupon.id
                  /\ c.is_active \in BOOLEAN
                  /\ coupons' = (coupons \ {c})
                                  \cup {[c EXCEPT !.is_active = (c.is_active = FALSE)]}
             /\ UNCHANGED <<bookings, bookingAddons>>
     /\ (last'.route = "coupons/toggle" /\ last'.status # 200)
          => UNCHANGED <<coupons, bookings, bookingAddons>>
     /\ ( /\ AtLookupComplete(last') /\ ~last'.failed
          /\ \A c \in Named(last'.info.code) : ~c.is_active )
          => /\ last'.status = 404
             /\ last'.body = "Invalid or expired coupon code"
             /\ UNCHANGED <<coupons, bookings>>
     /\ \A r \in BagToSet(inflight') :
          Accepted(r) => r.coupon \in Named(r.code) /\ r.coupon.is_active
     /\ (last'.route = "coupons/validate" /\ last'.status = 200)
          => last'.info.coupon \in Named(last'.info.code)
             /\ last'.info.coupon.is_active]_vars

\* C21, the case: a coupon that is neither expired nor used up was toggled to
\* inactive, and a request for its code was answered 404.
C21_InactiveCodeRejected ==
  /\ AtLookupComplete(last) /\ last.status = 404
  /\ writer.route = "coupons/toggle"
  /\ \E c \in Named(last.info.code) :
       /\ ~c.is_active
       /\ (c.expires_at = NULL \/ c.expires_at > now)
       /\ (c.max_uses = NULL \/ c.used_count < c.max_uses)

\* C22: POST /api/coupons/validate is read-only: whatever its input and its
\* outcome, the step that answers it leaves every coupons row and every
\* bookings row as it was; where coupons are only validated, never applied,
\* used_count stays 0, however many validations have run.
C22_ValidateReadOnly ==
  [][/\ last'.route = "coupons/validate"
          => /\ UNCHANGED <<coupons, bookings, bookingAddons>>
             /\ last'.status \in {200, 400, 404, 500}
     /\ \A c \in coupons' : c.used_count = 0]_vars

\* C22, the case: a coupon with max_uses = 1 was validated successfully and
\* is still unused.
C22_ValidatedAndUnused ==
  /\ last.route = "coupons/validate" /\ last.status = 200
  /\ \E c \in coupons :
       /\ c = last.info.coupon
       /\ c.max_uses = 1 /\ c.used_count = 0

\* the request names no booking of the table
NoSuchBooking(req) == ~ \E b \in bookings : b.id = req.bookingId

\* C23: a POST /api/coupons/apply whose coupon was accepted and whose
\* bookingId matches no booking is answered 404 'Booking not found' (when the
\* booking query itself succeeds) and goes no further; one without a code or
\* without a bookingId is answered 400; in both cases no coupon row (so no
\* used_count) and no booking row changes.
C23_UnknownBookingChangesNothing ==
  [][/\ ( /\ last'.route = "coupons/apply" /\ last'.info.pc = "selectBooking"
          /\ ~last'.failed /\ NoSuchBooking(last'.info) )
          => /\ last'.status = 404 /\ last'.body = "Booking not found"
             /\ UNCHANGED <<coupons, bookings, bookingAddons>>
     /\ \A r \in InFlight :
          (r.route = "coupons/apply" /\ r.pc = "selectBooking" /\ Left(r)
             /\ NoSuchBooking(r))
            => /\ last'.route = "coupons/apply" /\ last'.info.pc = "selectBooking"
               /\ last'.status \in {404, 500}
               /\ BagCardinality(inflight') < BagCardinality(inflight)
     /\ ( /\ last'.route = "coupons/apply"
          /\ (last'.info.code = NoText \/ last'.info.bookingId = NULL) )
          => /\ last'.status = 400
             /\ last'.body = "Coupon code and booking ID required"
             /\ UNCHANGED <<inflight, coupons, bookings, bookingAddons>>]_vars

\* C23, the case: an unused, acceptable coupon was applied to a booking that
\* does not exist, and the answer was 404 'Booking not found'.
C23_ValidCouponUnknownBooking ==
  /\ last.route = "coupons/apply" /\ last.status = 404
  /\ last.body = "Booking not found"
  /\ NoSuchBooking(last.info)
  /\ \E c \in coupons :
       /\ c = last.info.coupon
       /\ c.is_active /\ c.used_count = 0
  /\ \A b \in bookings : b.coupon_code = SqlNullText

\* C24: a coupon's usage limit holds under concurrency: in every reachable
\* state every coupon with max_uses set has used_count <= max_uses.
C24_UsageLimitHolds ==
  \A c \in coupons :
    c.max_uses # NULL => c.used_count <= c.max_uses

\* C27: whatever applies have run on a booking that started with
\* 0 <= deposit_amount <= total_amount, its total_amount and deposit_amount
\* are numbers (neither NaN nor infinite) with 0 <= deposit_amount <=
\* total_amount and deposit_amount / total_amount as at the start, also once
\* the total has been reduced to 0.
C27_DepositRatioKept ==
  \A b \in bookings :
    LET start == SeedBooking(b.id) IN
    /\ IsFinite(b.total_amount) /\ IsFinite(b.deposit_amount)
    /\ FLeq(Num(0), b.deposit_amount)
    /\ FLeq(b.deposit_amount, b.total_amount)
    /\ FMul(b.deposit_amount, start.total_amount)
         = FMul(b.total_amount, start.deposit_amount)

\* what one use of coupon c takes off an amount
OneDiscount(c, amount) ==
  LET d == IF c.discount_type = "percent"
             THEN FDiv(FMul(amount, c.discount_value), Num(100))
             ELSE c.discount_value
  IN IF FLt(amount, d) THEN amount ELSE d

\* C28: a booking is discounted by a coupon at most once: a booking without
\* coupon_code has its original total, and one with coupon_code has the
\* original total minus one discount of the coupon it names.
C28_DiscountedAtMostOnce ==
  \A b \in bookings :
    LET start == SeedBooking(b.id) IN
    IF b.coupon_code = SqlNullText
      THEN b.total_amount = start.total_amount
      ELSE \E c \in coupons :
             /\ c.code = b.coupon_code
             /\ b.total_amount
                  = FSub(start.total_amount, OneDiscount(c, start.total_amount))

\* C25: in every reachable state, whatever the interleaving of setup, verify
\* and disable requests, an admin row with totp_enabled = true has a
\* totp_secret that is not null.
C25_EnabledHasSecret ==
  \A u \in adminUsers : u.totp_enabled => u.totp_secret # NULL

\* C26: while two-factor authentication is enabled the stored totp_secret
\* changes only in the step of a POST /2fa/disable that answers 200 and whose
\* code is valid for the secret being removed; a POST /2fa/setup that finds
\* the account enabled answers 400, and no step of a setup changes the secret
\* of an enabled account.
C26_SecretKeptWhileEnabled ==
  [][/\ \A u \in adminUsers :
          (u.totp_enabled /\ u \notin adminUsers')
            => /\ last'.route = "2fa/disable" /\ last'.status = 200
               /\ u.totp_secret # NULL
               /\ last'.info.code = Totp(u.totp_secret)
     /\ ( /\ last'.route = "2fa/setup" /\ last'.body # "Access token required"
          /\ TwoFactorOn(adminUsers) )
          => /\ last'.status \in {400, 500}
             /\ UNCHANGED adminUsers]_vars

\* the hash under which a presented refresh token is stored
HashOf(tok) == <<"sha256", tok>>

\* C29: an existing refresh_tokens row changes only in a POST /logout, which
\* sets is_revoked on the row whose hash is that of the presented token and
\* changes no other row; the steps of /refresh and /login leave every
\* existing row as it is (login only adds one); a revoked row stays revoked.
C29_LogoutRevokesOnlyPresented ==
  [][/\ \A rt \in refreshTokens :
          \/ rt \in refreshTokens'
          \/ /\ last'.route = "logout"
             /\ rt.token_hash = HashOf(last'.info.tok)
             /\ [rt EXCEPT !.is_revoked = TRUE] \in refreshTokens'
     /\ Cardinality(refreshTokens') > Cardinality(refreshTokens)
          => /\ last'.route = "login" /\ last'.status = 200
             /\ Cardinality(refreshTokens') = Cardinality(refreshTokens) + 1
     /\ \A rt \in refreshTokens :
          rt.is_revoked
            => \E kept \in refreshTokens' :
                 kept.token_hash = rt.token_hash /\ kept.is_revoked]_vars

\* C29, the case: one refresh token of the admin has been revoked by a logout
\* and a /refresh presenting another one was answered 200.
C29_OtherTokenStillUsable ==
  /\ last.route = "refresh" /\ last.status = 200
  /\ \E gone, kept \in refreshTokens :
       /\ gone.is_revoked /\ gone.token_hash # HashOf(last.info.tok)
       /\ gone.user_id = kept.user_id
       /\ kept.token_hash = HashOf(last.info.tok) /\ ~kept.is_revoked

\* the cache rows of the configured place
RowsOfPlace(cache) == {c \in cache : c.place_id = PlaceId}

\* C30: with the Google variables set, every GET /api/google-reviews/refresh
\* calls the upstream, whether or not a fresh cache row exists, and is never
\* answered from the cache; its success leaves exactly one row for the
\* place, holding the data fetched and cached_at = now; when the upstream
\* call fails it answers 500 without review data and leaves the cache as it
\* was; under every interleaving with GET / the cache holds at most one row
\* for the place.
C30_RefreshAlwaysFetches ==
  [][/\ \A r \in BagToSet(inflight') :
          (r.route = "reviews/refresh" /\ Entered(r)) => upstream' = upstream + 1
     /\ (last'.route = "reviews/refresh" /\ isConfigured)
          => /\ ~last'.info.cached /\ ~last'.info.stale
             /\ last'.info.pc = "fetch" => upstream' = upstream + 1
             /\ last'.info.pc = "upsert" => upstream >= 1
             /\ last'.status \in {200, 500}
     /\ (last'.route = "reviews/refresh" /\ last'.status = 200)
          => /\ Cardinality(RowsOfPlace(reviewsCache')) = 1
             /\ \A c \in RowsOfPlace(reviewsCache') :
                  c.reviews_data = last'.info.data /\ c.cached_at = now
     /\ (last'.route = "reviews/refresh" /\ "fetch" \in last'.info.threw)
          => /\ last'.status = 500
             /\ last'.body = "Failed to refresh Google reviews"
             /\ last'.info.data = NoData
             /\ UNCHANGED reviewsCache
     /\ Cardinality(RowsOfPlace(reviewsCache')) <= 1]_vars

\* C30, the case: a refresh called the upstream although a fresh row was
\* cached; the call failed, the answer was 500 and the row is still there.
C30_FailedDespiteFreshRow ==
  /\ last.route = "reviews/refresh" /\ last.status = 500
  /\ "fetch" \in last.info.threw
  /\ upstream >= 2
  /\ \E c \in reviewsCache : c.place_id = PlaceId /\ now - c.cached_at < CACHE_HOURS

====
